---- MODULE Spec2Model ----
(***************************************************************************)
(* Verification model of code-context (bojanb98/code-context).             *)
(*                                                                         *)
(* Spec     the indexing orchestrator (IndexingService.index / delete)     *)
(*          over a file tree, the persisted snapshot and one vector-DB     *)
(*          collection, with the environment editing the tree between      *)
(*          runs and any await point able to raise or be cancelled.        *)
(* SpecCmp  compare_snapshot_to_current as a pure function, applied to     *)
(*          every old snapshot and current listing within the bounds.      *)
(***************************************************************************)
EXTENDS Integers, Sequences, FiniteSets, TLC

(***************************************************************************)
(* Bounds.                                                                 *)
(***************************************************************************)
\* relative paths of the codebase are 1..MaxPath; sorted() is numeric order
MaxPath == 2
\* file contents are 1..MaxContent
MaxContent == 3
\* chunks per upsert batch; stands for ITER_BATCH_SIZE (128 in the source),
\* scaled so that a run has more than one batch
BatchSize == 2
\* paths of the inputs of the pure comparison (SpecCmp)
CmpMaxPath == 3
\* files in the old snapshot, and in the current listing, of SpecCmp
CmpMaxFiles == 2
\* edits of the tree by the environment in one behaviour
MaxEdits == 2
\* index and delete calls in one behaviour
MaxOps == 4
\* chunk / graph node ids of a search are 1..MaxNode
MaxNode == 3
\* points the hybrid query of a search returns
MaxSeeds == 2
\* graph_limit arguments of a search are None and 0..MaxGraphLimit
MaxGraphLimit == 3
\* characters of a file given to the splitter
MaxCodeLen == 5
\* chunk_size of the splitter is 2..MaxChunkSize (2500 in the source, scaled)
MaxChunkSize == 4
\* chunk_overlap of the splitter is 0..MaxOverlap (300 in the source, scaled)
MaxOverlap == 2
\* chunks in the list given to the graph edge builder
MaxChunks == 3
\* chunk ids of that list are 1..MaxChunkId; the last one is in a second file
MaxChunkId == 3
\* AST nodes the chunks of that list refer to
MaxAstNodes == 2
\* parallelism of the explainer is 1..MaxParallelism
MaxParallelism == 2
\* code chunks given to one get_explanations call
MaxExplainChunks == 4
\* texts given to one generate_embeddings call
MaxQueries == 6
\* paths of a saved file map are 1..SaveMaxPath, hashes 1..SaveMaxHash
SaveMaxPath == 2
SaveMaxHash == 2

Paths == 1..MaxPath
Contents == 1..MaxContent
Mtimes == {1, 2}
Inodes == 1..MaxPath
CmpPaths == 1..CmpMaxPath

\* FileRecord.inode is None on filesystems without stable inodes
NoInode == 0

CmpInodes == {NoInode, 1, 2}

\* largest top_k search accepts
MaxTopK == 50

\* SearchService._DEFAULT_GRAPH_LIMIT
DefaultGraphLimit == 30

\* stop_after_attempt(3) of the retry decorators
StopAfterAttempt == 3

\* default batch_size of EmbeddingService.generate_embeddings
DefaultBatchSize == 32

\* SNAPSHOT_VERSION
SnapshotVersion == 1

(***************************************************************************)
(* Files, hashing, splitting.                                              *)
(***************************************************************************)
\* content hash of a file (xxh3-128 over the bytes); collisions are not modelled
FileHash(c) == 100 + c

\* st_size of a file holding content c; distinct contents may have equal size
Size(c) == (c + 1) \div 2

\* read_text(encoding="utf-8") succeeds; content 1 is a byte string that is
\* not valid UTF-8 (it still hashes, since hashing reads bytes)
Decodable(c) == c > 1

\* number of splittable nodes the splitter finds in content c
NumNodes(c) == 1 + (c % 2)

\* splitter.split(content, relative_path): one chunk per splittable node;
\* the chunk id is a hash of (path, node type, parent id, identifier) and
\* does not depend on the content of the node
Split(p, c) == [k \in 1..NumNodes(c) |-> [id |-> <<p, k>>, content |-> <<c, k>>, relative_path |-> p]]

RECURSIVE SortedSeq(_)
\* sorted(list(S)) for a set of paths
SortedSeq(S) == IF S = {} THEN <<>> ELSE LET m == CHOOSE x \in S : \A y \in S : x <= y IN <<m>> \o SortedSeq(S \ {m})

Range(s) == {s[i] : i \in 1..Len(s)}

\* the empty dict
EmptyMap == [p \in {} |-> 0]

(***************************************************************************)
(* DetectedChanges (sync/types.py).                                        *)
(***************************************************************************)
NoChanges == [added |-> <<>>, modified |-> <<>>, removed |-> <<>>]

num_changes(r) == Len(r.added) + Len(r.modified) + Len(r.removed)

to_add(r) == r.added \o r.modified

to_remove(r) == r.modified \o r.removed

(***************************************************************************)
(* compare_snapshot_to_current (sync/comparator.py).                       *)
(* old_files: path -> FileRecord; current_meta: path -> (size,mtime,inode);*)
(* hashOf: path -> hash of the file now at that path.                      *)
(***************************************************************************)
MetaEq(old, m) == old.size = m.size /\ old.mtime = m.mtime /\ old.inode = m.inode

\* a comparison that reports a common path as soon as its metadata changed,
\* without comparing hashes
CommonModified_MetaOnly(old_files, current_meta, hashOf) == {p \in (DOMAIN old_files) \cap (DOMAIN current_meta) : ~MetaEq(old_files[p], current_meta[p])}

\* paths of common whose metadata changed and whose hash differs (lines 26-34)
CommonModified(old_files, current_meta, hashOf) == {p \in (DOMAIN old_files) \cap (DOMAIN current_meta) : ~MetaEq(old_files[p], current_meta[p]) /\ hashOf[p] # old_files[p].hash}

\* the possible old_inode_map dicts (lines 42-47): one old path per non-None
\* inode; when two records share an inode the later one in dict order wins,
\* and the dict order is the order of the scan that built the snapshot
InodeMaps(old_files) == LET inos == {old_files[p].inode : p \in DOMAIN old_files} \ {NoInode} IN {im \in [inos -> DOMAIN old_files] : \A i \in inos : old_files[im[i]].inode = i}

\* new paths of added that have a non-None inode known to old_inode_map (lines 53-59)
InodeCandidates(old_files, current_meta, im) == {n \in (DOMAIN current_meta) \ (DOMAIN old_files) : current_meta[n].inode # NoInode /\ current_meta[n].inode \in DOMAIN im}

\* candidates whose content equals the old record's: pure renames (lines 61-65)
InodePaired(old_files, current_meta, hashOf, im) == {n \in InodeCandidates(old_files, current_meta, im) : hashOf[n] = old_files[im[current_meta[n].inode]].hash}

\* added_set after the inode pass (line 71)
AddedAfterInode(old_files, current_meta, hashOf, im) == ((DOMAIN current_meta) \ (DOMAIN old_files)) \ InodePaired(old_files, current_meta, hashOf, im)

\* removed_set after the inode pass (line 72)
RemovedAfterInode(old_files, current_meta, hashOf, im) == ((DOMAIN old_files) \ (DOMAIN current_meta)) \ {im[current_meta[n].inode] : n \in InodePaired(old_files, current_meta, hashOf, im)}

\* the possible removed_hashes dicts (line 75): one surviving removed path
\* per hash; which one is kept depends on the iteration order of a set
HashMaps(old_files, removed_set) == LET hs == {old_files[p].hash : p \in removed_set} IN {hm \in [hs -> removed_set] : \A h \in hs : old_files[hm[h]].hash = h}

\* the result for one choice of the two dicts (lines 16-94)
CompareWith(old_files, current_meta, hashOf, im, hm) ==
  LET added1 == AddedAfterInode(old_files, current_meta, hashOf, im)
      removed1 == RemovedAfterInode(old_files, current_meta, hashOf, im)
      modified1 == InodeCandidates(old_files, current_meta, im) \ InodePaired(old_files, current_meta, hashOf, im)
      paired2 == {n \in added1 : hashOf[n] \in DOMAIN hm}
  IN [added |-> SortedSeq(added1 \ paired2),
      modified |-> SortedSeq(CommonModified(old_files, current_meta, hashOf) \cup modified1),
      removed |-> SortedSeq(removed1 \ {hm[hashOf[n]] : n \in paired2})]

\* every DetectedChanges the function can return on these inputs
compare_snapshot_to_current(old_files, current_meta, hashOf) == UNION {{CompareWith(old_files, current_meta, hashOf, im, hm) : hm \in HashMaps(old_files, RemovedAfterInode(old_files, current_meta, hashOf, im))} : im \in InodeMaps(old_files)}

\* build_snapshot_records (sync/scanner.py): reuse the previous record when
\* (size, mtime, inode) match, else hash the file
build_snapshot_records(current_meta, prev_snapshot, hashOf) == [p \in DOMAIN current_meta |-> IF p \in DOMAIN prev_snapshot /\ MetaEq(prev_snapshot[p], current_meta[p]) THEN prev_snapshot[p] ELSE [size |-> current_meta[p].size, mtime |-> current_meta[p].mtime, inode |-> current_meta[p].inode, hash |-> hashOf[p]]]

(***************************************************************************)
(* State.                                                                  *)
(***************************************************************************)
VARIABLES
  fs,                \* the working tree: path -> [content, mtime, inode]
  snapshot,          \* persisted snapshot: [exists, files: path -> FileRecord]
  collection_exists, \* the codebase's collection exists in the vector DB
  points,            \* points of the collection: [id, content, relative_path]
  pc,                \* position of the running operation ("idle" when none)
  op,                \* "index", "delete" or "none"
  force_reindex,     \* argument of the running index call
  results,           \* DetectedChanges returned by check_for_changes
  detected,          \* check_for_changes has returned in this run
  old_files,         \* the snapshot check_for_changes loaded in this run
  remove_left,       \* paths of to_remove not yet deleted
  batches,           \* chunk batches not yet upserted
  upserted,          \* the point lists of the upsert calls of the run, in order
  skipped,           \* files of to_add whose read/split error was swallowed
  effects,           \* side effects of the running operation, in order
  snapshot0,         \* snapshot when the running operation started
  points0,           \* points when the running operation started
  raisedAt,          \* step at which the running operation raised
  prev,              \* the previous index call: outcome, force, unfinished files
  since,             \* what happened since the previous index call returned
  edits,             \* edits of the tree so far
  ops,               \* index and delete calls so far
  cmp_old,           \* SpecCmp: the old snapshot given to the comparison
  cmp_cur,           \* SpecCmp: the current files, path -> [content, mtime, inode]
  cmp_out,           \* SpecCmp: the DetectedChanges returned
  cmp_done           \* SpecCmp: the comparison has been applied

\* SpecSearch: one call of SearchService.search
VARIABLES
  query,             \* argument: "" (empty), " " (whitespace only) or "q"
  top_k,             \* argument
  threshold,         \* argument, in tenths
  max_graph_hops,    \* argument: {} is None, {n} is n
  graph_limit,       \* argument: {} is None, {n} is n
  has_doc_service,   \* self.doc_service is not None
  has_graph_service, \* self.graph_service is not None
  indexed,           \* the collection of the codebase exists
  search_pc,         \* position of the call
  calls,             \* calls issued to the vector DB, the embedders, the graph
  seeds,             \* results of the hybrid query, ranked: [id, score]
  graph_nodes,       \* node ids returned by graph_service.neighbors
  graph_outcome,     \* "none", "raised" or "returned"
  final_results,     \* the list search returns
  search_error       \* "none", "ValueError", "NotIndexed" or "Remote"

idxVars == <<fs, snapshot, collection_exists, points, pc, op, force_reindex, results, detected, old_files, remove_left, batches, upserted, skipped, effects, snapshot0, points0, raisedAt, prev, since, edits, ops>>

cmpVars == <<cmp_old, cmp_cur, cmp_out, cmp_done>>

\* SpecSplit: one call of TreeSitterSplitter.split
VARIABLES
  code,              \* argument: the file content, a sequence of characters
  parse_mode,        \* "unsupported" suffix, "no_parser", or "parsed"
  parse_nodes,       \* splittable nodes of the tree in traversal order: [from, to]
  chunk_size,        \* self.chunk_size
  chunk_overlap,     \* self.chunk_overlap
  split_out,         \* the chunk list split returns
  split_done         \* split has been applied

\* SpecGraph: one call of GraphEdgeBuilder.build
VARIABLES
  build_chunks,      \* argument: the chunk list
  build_edges,       \* the edge list build returns
  build_done         \* build has been applied

\* SpecExplain: one call of ExplainerService.get_explanations
VARIABLES
  parallelism,       \* self.parallelism
  requests,          \* per code chunk: [status, attempt] of its _get_explanation
  dispatched,        \* number of chunks whose request has been started
  explain_pc         \* "running", "returned" or "raised"

\* SpecRetry: one call of a function that talks to the remote model service
VARIABLES
  retry_fn,          \* the function called
  retry_queries,     \* number of texts given to it
  retry_batch_size,  \* batch_size of generate_embeddings
  retry_done,        \* texts answered so far (len(all_embeddings))
  retry_attempt,     \* attempts made for the current request
  retry_log,         \* what the service did at each attempt of the current request
  retry_pc,          \* "calling", "sleeping", "returned" or "raised"
  retry_error        \* the exception the caller gets, if any

\* SpecSave: one save of a codebase's snapshot file, and loads of it
VARIABLES
  disk,              \* the snapshot file: {} when absent, else {its text}
  save_old,          \* the file map the previous save stored
  save_new,          \* the file map being saved
  save_pc,           \* "start", "writing", "saved" or "stopped"
  loaded             \* what the last load returned, if there was one

\* SpecList: one call of LocalFileLister.list_metadata
VARIABLES
  ignore_patterns,   \* the global patterns given to the call
  gitignore_files,   \* directory -> the lines of its .gitignore, if it has one
  cwd_is_root,       \* the working directory of the process is the codebase root
  stack,             \* directories still to visit
  gitignore_map,     \* directory key -> parsed patterns
  result,            \* the paths listed so far
  decided,           \* path -> what _is_ignored answered for it
  list_pc            \* "walking" or "returned"

\* SpecAugment: one call of IndexingService._augment_with_explanations or of
\* ExplainerService.get_explanations
VARIABLES
  aug_entry,         \* the method called: "augment" or "get_explanations"
  aug_explainer,     \* self.explainer is not None
  aug_parallelism,   \* self.parallelism of the explainer
  aug_chunks,        \* argument chunks of _augment_with_explanations
  aug_codes,         \* argument code_chunks of get_explanations
  aug_tasks,         \* per code string: [state, content] of its _get_explanation
  aug_finished,      \* the requests in the order they completed
  aug_explanations,  \* the list explanations built so far
  aug_pc,            \* "call", "running", "returned" or "raised"
  aug_error,         \* the exception raised
  aug_out            \* the list returned

searchVars == <<query, top_k, threshold, max_graph_hops, graph_limit, has_doc_service, has_graph_service, indexed, search_pc, calls, seeds, graph_nodes, graph_outcome, final_results, search_error>>

splitVars == <<code, parse_mode, parse_nodes, chunk_size, chunk_overlap, split_out, split_done>>

graphVars == <<build_chunks, build_edges, build_done>>

explainVars == <<parallelism, requests, dispatched, explain_pc>>

retryVars == <<retry_fn, retry_queries, retry_batch_size, retry_done, retry_attempt, retry_log, retry_pc, retry_error>>

saveVars == <<disk, save_old, save_new, save_pc, loaded>>

listVars == <<ignore_patterns, gitignore_files, cwd_is_root, stack, gitignore_map, result, decided, list_pc>>

augVars == <<aug_entry, aug_explainer, aug_parallelism, aug_chunks, aug_codes, aug_tasks, aug_finished, aug_explanations, aug_pc, aug_error, aug_out>>

vars == <<idxVars, cmpVars, searchVars, splitVars, graphVars, explainVars, retryVars, saveVars, listVars, augVars>>

\* the variables each specification leaves alone
notIdxVars == <<cmpVars, searchVars, splitVars, graphVars, explainVars, retryVars, saveVars, listVars, augVars>>

notCmpVars == <<idxVars, searchVars, splitVars, graphVars, explainVars, retryVars, saveVars, listVars, augVars>>

notSearchVars == <<idxVars, cmpVars, splitVars, graphVars, explainVars, retryVars, saveVars, listVars, augVars>>

notSplitVars == <<idxVars, cmpVars, searchVars, graphVars, explainVars, retryVars, saveVars, listVars, augVars>>

notGraphVars == <<idxVars, cmpVars, searchVars, splitVars, explainVars, retryVars, saveVars, listVars, augVars>>

notExplainVars == <<idxVars, cmpVars, searchVars, splitVars, graphVars, retryVars, saveVars, listVars, augVars>>

notRetryVars == <<idxVars, cmpVars, searchVars, splitVars, graphVars, explainVars, saveVars, listVars, augVars>>

notSaveVars == <<idxVars, cmpVars, searchVars, splitVars, graphVars, explainVars, retryVars, listVars, augVars>>

notListVars == <<idxVars, cmpVars, searchVars, splitVars, graphVars, explainVars, retryVars, saveVars, augVars>>

notAugVars == <<idxVars, cmpVars, searchVars, splitVars, graphVars, explainVars, retryVars, saveVars, listVars>>

runVars == <<force_reindex, results, detected, old_files, remove_left, batches, upserted, skipped, snapshot0, points0, raisedAt>>

\* no snapshot file: load() returns {}
NoSnapshot == [exists |-> FALSE, files |-> EmptyMap]

NoPrev == [op |-> "none", outcome |-> "none", force |-> FALSE, undone |-> {}]

\* list_metadata / scan_metadata of the tree: path -> (size, mtime, inode)
CurrentMeta(tree) == [p \in DOMAIN tree |-> [size |-> Size(tree[p].content), mtime |-> tree[p].mtime, inode |-> tree[p].inode]]

\* hash of the file now at each path
CurrentHash(tree) == [p \in DOMAIN tree |-> FileHash(tree[p].content)]

\* the tree with path p holding file f
WithFile(tree, p, f) == [x \in (DOMAIN tree) \cup {p} |-> IF x = p THEN f ELSE tree[x]]

\* the tree without path p
WithoutFile(tree, p) == [x \in (DOMAIN tree) \ {p} |-> tree[x]]

RECURSIVE Flatten(_)
Flatten(ss) == IF ss = <<>> THEN <<>> ELSE Head(ss) \o Flatten(Tail(ss))

\* _get_chunks: the chunks of the files of a path list, in order; a file
\* whose read or split raises contributes nothing (the error is logged)
GetChunks(tree, files) == Flatten([i \in 1..Len(files) |-> IF files[i] \in DOMAIN tree /\ Decodable(tree[files[i]].content) THEN Split(files[i], tree[files[i]].content) ELSE <<>>])

\* files of a path list whose error _get_chunks swallows
UnreadFiles(tree, files) == {files[i] : i \in {j \in 1..Len(files) : ~(files[j] \in DOMAIN tree /\ Decodable(tree[files[j]].content))}}

RECURSIVE Batched(_, _)
\* itertools.batched(chunks, n)
Batched(chunks, n) == IF chunks = <<>> THEN <<>> ELSE IF Len(chunks) <= n THEN <<chunks>> ELSE <<SubSeq(chunks, 1, n)>> \o Batched(SubSeq(chunks, n + 1, Len(chunks)), n)

\* client.upsert: a point replaces the stored point of the same id
Upsert(pts, batch) == {q \in pts : \A i \in 1..Len(batch) : batch[i].id # q.id} \cup Range(batch)

\* client.delete with the filter relative_path == path
DeleteByPath(pts, path) == {q \in pts : q.relative_path # path}

(***************************************************************************)
(* Initial state: nothing indexed; the tree is whatever the codebase holds. *)
(***************************************************************************)
CmpIdle == cmp_old = EmptyMap /\ cmp_cur = EmptyMap /\ cmp_out = NoChanges /\ cmp_done = FALSE

SearchIdle ==
  /\ query = ""
  /\ top_k = 0
  /\ threshold = 0
  /\ max_graph_hops = {}
  /\ graph_limit = {}
  /\ has_doc_service = FALSE
  /\ has_graph_service = FALSE
  /\ indexed = FALSE
  /\ search_pc = "idle"
  /\ calls = <<>>
  /\ seeds = <<>>
  /\ graph_nodes = <<>>
  /\ graph_outcome = "none"
  /\ final_results = <<>>
  /\ search_error = "none"

SplitIdle == code = <<>> /\ parse_mode = "unsupported" /\ parse_nodes = <<>> /\ chunk_size = 0 /\ chunk_overlap = 0 /\ split_out = <<>> /\ split_done = FALSE

GraphIdle == build_chunks = <<>> /\ build_edges = <<>> /\ build_done = FALSE

ExplainIdle == parallelism = 1 /\ requests = <<>> /\ dispatched = 0 /\ explain_pc = "returned"

RetryIdle == retry_fn = "generate_embedding" /\ retry_queries = 1 /\ retry_batch_size = 1 /\ retry_done = 0 /\ retry_attempt = 0 /\ retry_log = <<>> /\ retry_pc = "returned" /\ retry_error = {}

SaveIdle == disk = {} /\ save_old = << >> /\ save_new = << >> /\ save_pc = "saved" /\ loaded = {}

ListIdle == ignore_patterns = <<>> /\ gitignore_files = << >> /\ cwd_is_root = TRUE /\ stack = <<>> /\ gitignore_map = << >> /\ result = {} /\ decided = << >> /\ list_pc = "returned"

AugIdle == aug_entry = "augment" /\ aug_explainer = FALSE /\ aug_parallelism = 1 /\ aug_chunks = <<>> /\ aug_codes = <<>> /\ aug_tasks = <<>> /\ aug_finished = <<>> /\ aug_explanations = <<>> /\ aug_pc = "returned" /\ aug_error = "none" /\ aug_out = <<>>

NotIdxIdle == CmpIdle /\ SearchIdle /\ SplitIdle /\ GraphIdle /\ ExplainIdle /\ RetryIdle /\ SaveIdle /\ ListIdle /\ AugIdle

\* the trees a first call can find: some paths hold a file; up to renaming
\* of mtimes and inodes every file has the first mtime and its own inode
Trees == UNION {[S -> Contents] : S \in SUBSET Paths}

FileOf(t, p) == [content |-> t[p], mtime |-> 1, inode |-> p]

Init ==
  /\ \E t \in Trees : fs = [p \in DOMAIN t |-> FileOf(t, p)]
  /\ snapshot = NoSnapshot
  /\ collection_exists = FALSE
  /\ points = {}
  /\ pc = "idle"
  /\ op = "none"
  /\ force_reindex = FALSE
  /\ results = NoChanges
  /\ detected = FALSE
  /\ old_files = EmptyMap
  /\ remove_left = <<>>
  /\ batches = <<>>
  /\ upserted = <<>>
  /\ skipped = {}
  /\ effects = <<>>
  /\ snapshot0 = NoSnapshot
  /\ points0 = {}
  /\ raisedAt = "none"
  /\ prev = NoPrev
  /\ since = "none"
  /\ edits = 0
  /\ ops = 0
  /\ NotIdxIdle

(***************************************************************************)
(* The environment edits the tree while no operation runs.                 *)
(***************************************************************************)
Edited(kind) == edits < MaxEdits /\ edits' = edits + 1 /\ since' = IF kind = "move" /\ since = "none" THEN "move" ELSE "other"

\* a new file appears; its inode is any inode no present file uses
CreateFile ==
  /\ pc = "idle"
  /\ \E p \in Paths \ DOMAIN fs, c \in Contents, m \in Mtimes, i \in Inodes \ {fs[q].inode : q \in DOMAIN fs} :
       fs' = WithFile(fs, p, [content |-> c, mtime |-> m, inode |-> i])
  /\ Edited("create")
  /\ UNCHANGED <<snapshot, collection_exists, points, pc, op, effects, prev, ops>>
  /\ UNCHANGED runVars
  /\ UNCHANGED notIdxVars

\* a file is rewritten in place (same inode); the new mtime may equal the
\* old one, and a write of the same content with a new mtime is a touch
WriteFile ==
  /\ pc = "idle"
  /\ \E p \in DOMAIN fs, c \in Contents, m \in Mtimes :
       /\ <<c, m>> # <<fs[p].content, fs[p].mtime>>
       /\ fs' = WithFile(fs, p, [content |-> c, mtime |-> m, inode |-> fs[p].inode])
  /\ Edited("write")
  /\ UNCHANGED <<snapshot, collection_exists, points, pc, op, effects, prev, ops>>
  /\ UNCHANGED runVars
  /\ UNCHANGED notIdxVars

RemoveFile ==
  /\ pc = "idle"
  /\ \E p \in DOMAIN fs : fs' = WithoutFile(fs, p)
  /\ Edited("remove")
  /\ UNCHANGED <<snapshot, collection_exists, points, pc, op, effects, prev, ops>>
  /\ UNCHANGED runVars
  /\ UNCHANGED notIdxVars

\* rename(2): the file keeps content, mtime and inode
MoveFile ==
  /\ pc = "idle"
  /\ \E p \in DOMAIN fs, q \in Paths \ DOMAIN fs : fs' = WithFile(WithoutFile(fs, p), q, fs[p])
  /\ Edited("move")
  /\ UNCHANGED <<snapshot, collection_exists, points, pc, op, effects, prev, ops>>
  /\ UNCHANGED runVars
  /\ UNCHANGED notIdxVars

(***************************************************************************)
(* IndexingService.index and IndexingService.delete, one action per await. *)
(***************************************************************************)
Log(e) == effects' = Append(effects, e)

\* index(codebase_path, force_reindex) is called (lines 81-103)
IndexStart ==
  /\ pc = "idle"
  /\ ops < MaxOps
  /\ ops' = ops + 1
  /\ \E f \in BOOLEAN : force_reindex' = f
  /\ pc' = "prepare"
  /\ op' = "index"
  /\ results' = NoChanges
  /\ detected' = FALSE
  /\ old_files' = EmptyMap
  /\ remove_left' = <<>>
  /\ batches' = <<>>
  /\ upserted' = <<>>
  /\ skipped' = {}
  /\ effects' = <<>>
  /\ snapshot0' = snapshot
  /\ points0' = points
  /\ raisedAt' = "none"
  /\ UNCHANGED <<fs, snapshot, collection_exists, points, prev, since, edits>>
  /\ UNCHANGED notIdxVars

\* delete(codebase_path) is called (lines 60-64)
DeleteStart ==
  /\ pc = "idle"
  /\ ops < MaxOps
  /\ ops' = ops + 1
  /\ pc' = "drop_collection"
  /\ op' = "delete"
  /\ force_reindex' = FALSE
  /\ results' = NoChanges
  /\ detected' = FALSE
  /\ old_files' = EmptyMap
  /\ remove_left' = <<>>
  /\ batches' = <<>>
  /\ upserted' = <<>>
  /\ skipped' = {}
  /\ effects' = <<>>
  /\ snapshot0' = snapshot
  /\ points0' = points
  /\ raisedAt' = "none"
  /\ since' = "other"
  /\ UNCHANGED <<fs, snapshot, collection_exists, points, prev, edits>>
  /\ UNCHANGED notIdxVars

\* where _prepare_collection goes after collection_exists (lines 245-259):
\* an existing collection is kept, or under force_reindex handed to
\* delete(); a missing one is created, whatever force_reindex is
PrepareTarget(exists, force) == IF exists /\ ~force THEN "check" ELSE IF exists /\ force THEN "drop_collection" ELSE "create_collection"

PrepareCollection ==
  /\ pc = "prepare"
  /\ pc' = PrepareTarget(collection_exists, force_reindex)
  /\ UNCHANGED <<fs, snapshot, collection_exists, points, op, effects, prev, since, edits, ops>>
  /\ UNCHANGED runVars
  /\ UNCHANGED notIdxVars

\* delete(): drop the collection if it exists (lines 64-67)
DropCollection ==
  /\ pc = "drop_collection"
  /\ IF collection_exists
       THEN collection_exists' = FALSE /\ points' = {} /\ Log("drop_collection")
       ELSE UNCHANGED <<collection_exists, points, effects>>
  /\ pc' = "drop_graph"
  /\ UNCHANGED <<fs, snapshot, op, prev, since, edits, ops>>
  /\ UNCHANGED runVars
  /\ UNCHANGED notIdxVars

\* a delete() that lets the error of delete_graph end the call
AfterDeleteGraph_Abandons(failed) == IF failed THEN "done" ELSE "delete_snapshot"

\* where delete() goes after delete_graph (lines 69-79): an Exception it
\* raises is logged and the snapshot deletion follows all the same
AfterDeleteGraph(failed) == "delete_snapshot"

\* delete(): delete_graph is attempted and succeeds or raises (lines 69-77)
DeleteGraph ==
  /\ pc = "drop_graph"
  /\ \E failed \in BOOLEAN :
       /\ Log(IF failed THEN "drop_graph_failed" ELSE "drop_graph")
       /\ pc' = AfterDeleteGraph(failed)
  /\ UNCHANGED <<fs, snapshot, collection_exists, points, op, prev, since, edits, ops>>
  /\ UNCHANGED runVars
  /\ UNCHANGED notIdxVars

\* delete(): synchronizer.delete_snapshot (line 79), then back in
\* _prepare_collection when index called delete()
DeleteSnapshot ==
  /\ pc = "delete_snapshot"
  /\ snapshot' = NoSnapshot
  /\ Log("delete_snapshot")
  /\ pc' = IF op = "index" THEN "create_collection" ELSE "done"
  /\ UNCHANGED <<fs, collection_exists, points, op, prev, since, edits, ops>>
  /\ UNCHANGED runVars
  /\ UNCHANGED notIdxVars

\* _create_collection (line 259)
CreateCollection ==
  /\ pc = "create_collection"
  /\ collection_exists' = TRUE
  /\ points' = {}
  /\ Log("create_collection")
  /\ pc' = "check"
  /\ UNCHANGED <<fs, snapshot, op, prev, since, edits, ops>>
  /\ UNCHANGED runVars
  /\ UNCHANGED notIdxVars

\* a check_for_changes that never saves the new state
SnapshotAfterCheck_Unsaved(snap, tree, r) == snap

\* the snapshot check_for_changes leaves behind (files.py lines 186-193):
\* when there are changes the new state is stored and saved at once
SnapshotAfterCheck(snap, tree, r) == IF num_changes(r) > 0 THEN [exists |-> TRUE, files |-> build_snapshot_records(CurrentMeta(tree), snap.files, CurrentHash(tree))] ELSE snap

\* synchronizer.check_for_changes (index line 111; files.py lines 170-207),
\* and the early return of index when nothing changed (lines 113-115)
CheckForChanges ==
  /\ pc = "check"
  /\ \E r \in compare_snapshot_to_current(snapshot.files, CurrentMeta(fs), CurrentHash(fs)) :
       /\ results' = r
       /\ snapshot' = SnapshotAfterCheck(snapshot, fs, r)
       /\ IF num_changes(r) > 0 THEN Log("snapshot") ELSE UNCHANGED effects
       /\ remove_left' = to_remove(r)
       /\ pc' = IF num_changes(r) = 0 THEN "done" ELSE IF to_remove(r) = <<>> THEN "get_chunks" ELSE "delete_chunks"
  /\ detected' = TRUE
  /\ old_files' = snapshot.files
  /\ UNCHANGED <<fs, collection_exists, points, op, force_reindex, batches, upserted, skipped, snapshot0, points0, raisedAt, prev, since, edits, ops>>
  /\ UNCHANGED notIdxVars

\* _delete_file_chunks: one client.delete per path of to_remove (lines 291-299)
DeleteFileChunks ==
  /\ pc = "delete_chunks"
  /\ points' = DeleteByPath(points, Head(remove_left))
  /\ remove_left' = Tail(remove_left)
  /\ Log("delete")
  /\ pc' = IF Tail(remove_left) = <<>> THEN "get_chunks" ELSE "delete_chunks"
  /\ UNCHANGED <<fs, snapshot, collection_exists, op, force_reindex, results, detected, old_files, batches, upserted, skipped, snapshot0, points0, raisedAt, prev, since, edits, ops>>
  /\ UNCHANGED notIdxVars

\* a _get_points zipped with one embedding too few
GetPoints_OneShort(chunk_batch) == SubSeq(chunk_batch, 1, Len(chunk_batch) - 1)

\* _get_points (lines 167-218): one point per chunk, zipped with the
\* embeddings, of which generate_embeddings returns one per content
GetPoints(chunk_batch) == [i \in 1..Len(chunk_batch) |-> chunk_batch[i]]

\* _get_chunks over to_add and the batching of the chunks (lines 118-119)
GetChunksStep ==
  /\ pc = "get_chunks"
  /\ batches' = Batched(GetChunks(fs, to_add(results)), BatchSize)
  /\ UNCHANGED upserted
  /\ skipped' = UnreadFiles(fs, to_add(results))
  /\ pc' = IF GetChunks(fs, to_add(results)) = <<>> THEN "done" ELSE "upsert"
  /\ UNCHANGED <<fs, snapshot, collection_exists, points, op, force_reindex, results, detected, old_files, remove_left, effects, snapshot0, points0, raisedAt, prev, since, edits, ops>>
  /\ UNCHANGED notIdxVars

\* one iteration of the batch loop: embed, build points, upsert (lines 119-136)
UpsertBatch ==
  /\ pc = "upsert"
  /\ points' = Upsert(points, GetPoints(Head(batches)))
  /\ batches' = Tail(batches)
  /\ upserted' = Append(upserted, GetPoints(Head(batches)))
  /\ Log("upsert")
  /\ pc' = IF Tail(batches) = <<>> THEN "done" ELSE "upsert"
  /\ UNCHANGED <<fs, snapshot, collection_exists, op, force_reindex, results, detected, old_files, remove_left, skipped, snapshot0, points0, raisedAt, prev, since, edits, ops>>
  /\ UNCHANGED notIdxVars

\* the await points of index and delete: each can raise (vector-DB,
\* embedding, snapshot I/O error) or be cancelled before it takes effect
AwaitPoints == {"prepare", "drop_collection", "drop_graph", "delete_snapshot", "create_collection", "check", "delete_chunks", "upsert"}

Raise ==
  /\ pc \in AwaitPoints
  /\ pc' = "raised"
  /\ raisedAt' = pc
  /\ UNCHANGED <<fs, snapshot, collection_exists, points, op, force_reindex, results, detected, old_files, remove_left, batches, upserted, skipped, effects, snapshot0, points0, prev, since, edits, ops>>
  /\ UNCHANGED notIdxVars

\* files of to_add whose chunks the run has not all upserted
Undone == IF ~detected THEN {} ELSE IF pc \in {"delete_chunks", "get_chunks"} THEN Range(to_add(results)) ELSE {c.relative_path : c \in UNION {Range(batches[i]) : i \in 1..Len(batches)}}

\* the operation returns to its caller, normally or with the exception
Return ==
  /\ pc \in {"done", "raised"}
  /\ pc' = "idle"
  /\ op' = "none"
  /\ IF op = "index"
       THEN prev' = [op |-> "index", outcome |-> pc, force |-> force_reindex, undone |-> IF pc = "raised" THEN Undone ELSE {}] /\ since' = "none"
       ELSE UNCHANGED <<prev, since>>
  /\ force_reindex' = FALSE
  /\ results' = NoChanges
  /\ detected' = FALSE
  /\ old_files' = EmptyMap
  /\ remove_left' = <<>>
  /\ batches' = <<>>
  /\ upserted' = <<>>
  /\ skipped' = {}
  /\ effects' = <<>>
  /\ snapshot0' = NoSnapshot
  /\ points0' = {}
  /\ raisedAt' = "none"
  /\ UNCHANGED <<fs, snapshot, collection_exists, points, edits, ops>>
  /\ UNCHANGED notIdxVars

Next ==
  \/ CreateFile
  \/ WriteFile
  \/ RemoveFile
  \/ MoveFile
  \/ IndexStart
  \/ DeleteStart
  \/ PrepareCollection
  \/ DropCollection
  \/ DeleteGraph
  \/ DeleteSnapshot
  \/ CreateCollection
  \/ CheckForChanges
  \/ DeleteFileChunks
  \/ GetChunksStep
  \/ UpsertBatch
  \/ Raise
  \/ Return

Spec == Init /\ [][Next]_vars

(***************************************************************************)
(* SpecCmp: compare_snapshot_to_current on every old snapshot and current  *)
(* listing within the bounds.                                              *)
(***************************************************************************)
\* old snapshots: records as build_snapshot_records writes them (size and
\* hash of one content); up to renaming of mtimes the old mtime is the first
CmpOldRecords == {[size |-> Size(c), mtime |-> 1, inode |-> i, hash |-> FileHash(c)] : c \in Contents, i \in CmpInodes}

CmpOldSnapshots == UNION {[S -> CmpOldRecords] : S \in {T \in SUBSET CmpPaths : Cardinality(T) <= CmpMaxFiles}}

\* current files; two paths may share an inode (hard links)
CmpTrees == UNION {[S -> [content : Contents, mtime : Mtimes, inode : CmpInodes]] : S \in {T \in SUBSET CmpPaths : Cardinality(T) <= CmpMaxFiles}}

IdxIdle ==
  /\ fs = EmptyMap
  /\ snapshot = NoSnapshot
  /\ collection_exists = FALSE
  /\ points = {}
  /\ pc = "idle"
  /\ op = "none"
  /\ force_reindex = FALSE
  /\ results = NoChanges
  /\ detected = FALSE
  /\ old_files = EmptyMap
  /\ remove_left = <<>>
  /\ batches = <<>>
  /\ upserted = <<>>
  /\ skipped = {}
  /\ effects = <<>>
  /\ snapshot0 = NoSnapshot
  /\ points0 = {}
  /\ raisedAt = "none"
  /\ prev = NoPrev
  /\ since = "none"
  /\ edits = 0
  /\ ops = 0

NotCmpIdle == IdxIdle /\ SearchIdle /\ SplitIdle /\ GraphIdle /\ ExplainIdle /\ RetryIdle /\ SaveIdle /\ ListIdle /\ AugIdle

CmpInit ==
  /\ NotCmpIdle
  /\ cmp_old \in CmpOldSnapshots
  /\ cmp_cur \in CmpTrees
  /\ cmp_out = NoChanges
  /\ cmp_done = FALSE

\* the comparison is applied to the inputs
CmpCompare ==
  /\ ~cmp_done
  /\ cmp_out' \in compare_snapshot_to_current(cmp_old, CurrentMeta(cmp_cur), CurrentHash(cmp_cur))
  /\ cmp_done' = TRUE
  /\ UNCHANGED <<cmp_old, cmp_cur>>
  /\ UNCHANGED notCmpVars

CmpNext == CmpCompare

SpecCmp == CmpInit /\ [][CmpNext]_vars

(***************************************************************************)
(* SpecSearch: SearchService.search (services/search_service.py), one      *)
(* action per await, for every argument tuple within the bounds.           *)
(***************************************************************************)
NodeIds == 1..MaxNode

\* sequences of distinct elements of S, of length at most n
DistinctSeqs(S, n) == UNION {{q \in [1..k -> S] : \A i, j \in 1..k : i # j => q[i] # q[j]} : k \in 0..n}

Queries == {"", " ", "q"}

TopKs == {0, 1, MaxSeeds, MaxTopK, MaxTopK + 1}

\* thresholds in tenths: -0.1, 0.0, 0.5, 1.0, 1.1
Thresholds == {0 - 1, 0, 5, 10, 11}

\* None, or an int
Optional(S) == {{}} \cup {{n} : n \in S}

IsNone(o) == o = {}

ValueOf(o) == CHOOSE n \in o : TRUE

\* fused scores of the returned points, in tenths
Scores == {5, 10}

\* argument checks that leave out the check of max_graph_hops
ArgumentsValid_HopsUnchecked(q, k, t, h) == q = "q" /\ 1 <= k /\ k <= MaxTopK /\ 0 <= t /\ t <= 10

\* the argument checks of search, in order (lines 135-145)
ArgumentsValid(q, k, t, h) == q = "q" /\ 1 <= k /\ k <= MaxTopK /\ 0 <= t /\ t <= 10 /\ (IsNone(h) \/ ValueOf(h) >= 1)

\* graph_limit or self._DEFAULT_GRAPH_LIMIT (line 172): None and 0 are falsy
EffectiveLimit(gl) == IF IsNone(gl) \/ ValueOf(gl) = 0 THEN DefaultGraphLimit ELSE ValueOf(gl)

\* s[:n] of a Python list
PySlice(s, n) == IF n >= 0 THEN SubSeq(s, 1, IF n < Len(s) THEN n ELSE Len(s)) ELSE SubSeq(s, 1, IF Len(s) + n > 0 THEN Len(s) + n ELSE 0)

SeqIds(rs) == {rs[i].id : i \in 1..Len(rs)}

RECURSIVE MergeNodes(_, _, _)
\* the loop over graph_nodes (lines 221-238): a node whose id is already in
\* result_by_id is skipped, another is appended with score 0.0, and the loop
\* stops once the list has reached the limit
MergeNodes(ordered, nodes, limit) ==
  IF nodes = <<>> THEN ordered
  ELSE IF Head(nodes) \in SeqIds(ordered) THEN MergeNodes(ordered, Tail(nodes), limit)
  ELSE IF Len(ordered) + 1 >= limit THEN Append(ordered, [id |-> Head(nodes), score |-> 0])
  ELSE MergeNodes(Append(ordered, [id |-> Head(nodes), score |-> 0]), Tail(nodes), limit)

\* _expand_with_graph once neighbors has returned (lines 211-240)
ExpandResults(sds, nodes, limit) == PySlice(MergeNodes(sds, nodes, limit), limit)

\* a handler of the graph error that drops the seeds
ResultOnGraphError_Empty(sds) == <<>>

\* what _expand_with_graph returns when neighbors raises (lines 201-203)
ResultOnGraphError(sds) == sds

\* the lists query_points can return: at most limit points of distinct ids,
\* ranked by score, every score at least score_threshold
SeedLists(k, t) == {[i \in 1..Len(ids) |-> [id |-> ids[i], score |-> sc[i]]] : <<ids, sc>> \in {x \in DistinctSeqs(NodeIds, IF k < MaxSeeds THEN k ELSE MaxSeeds) \X UNION {[1..n -> Scores] : n \in 0..MaxSeeds} : Len(x[1]) = Len(x[2]) /\ \A i \in 1..Len(x[2]) : x[2][i] >= t /\ (i > 1 => x[2][i - 1] >= x[2][i])}}

NotSearchIdle == IdxIdle /\ CmpIdle /\ SplitIdle /\ GraphIdle /\ ExplainIdle /\ RetryIdle /\ SaveIdle /\ ListIdle /\ AugIdle

SearchInit ==
  /\ NotSearchIdle
  /\ query \in Queries
  /\ top_k \in TopKs
  /\ threshold \in Thresholds
  /\ max_graph_hops \in Optional({0, 1, 2})
  /\ graph_limit \in Optional(0..MaxGraphLimit)
  /\ has_doc_service \in BOOLEAN
  /\ has_graph_service \in BOOLEAN
  /\ indexed \in BOOLEAN
  /\ search_pc = "validate"
  /\ calls = <<>>
  /\ seeds = <<>>
  /\ graph_nodes = <<>>
  /\ graph_outcome = "none"
  /\ final_results = <<>>
  /\ search_error = "none"

Call(c) == calls' = Append(calls, c)

\* lines 135-145
SearchValidate ==
  /\ search_pc = "validate"
  /\ IF ArgumentsValid(query, top_k, threshold, max_graph_hops)
       THEN search_pc' = "collection_exists" /\ UNCHANGED search_error
       ELSE search_pc' = "failed" /\ search_error' = "ValueError"
  /\ UNCHANGED <<query, top_k, threshold, max_graph_hops, graph_limit, has_doc_service, has_graph_service, indexed, calls, seeds, graph_nodes, graph_outcome, final_results>>
  /\ UNCHANGED notSearchVars

\* lines 153-161
SearchCollectionExists ==
  /\ search_pc = "collection_exists"
  /\ Call("collection_exists")
  /\ IF indexed
       THEN search_pc' = "embed_code" /\ UNCHANGED search_error
       ELSE search_pc' = "failed" /\ search_error' = "NotIndexed"
  /\ UNCHANGED <<query, top_k, threshold, max_graph_hops, graph_limit, has_doc_service, has_graph_service, indexed, seeds, graph_nodes, graph_outcome, final_results>>
  /\ UNCHANGED notSearchVars

\* _perform_search: the code embedding of the query (line 53)
SearchEmbedCode ==
  /\ search_pc = "embed_code"
  /\ Call("embed")
  /\ search_pc' = IF has_doc_service THEN "embed_doc" ELSE "query_points"
  /\ UNCHANGED <<query, top_k, threshold, max_graph_hops, graph_limit, has_doc_service, has_graph_service, indexed, seeds, graph_nodes, graph_outcome, final_results, search_error>>
  /\ UNCHANGED notSearchVars

\* _perform_search: the doc embedding of the query (lines 64-67)
SearchEmbedDoc ==
  /\ search_pc = "embed_doc"
  /\ Call("embed")
  /\ search_pc' = "query_points"
  /\ UNCHANGED <<query, top_k, threshold, max_graph_hops, graph_limit, has_doc_service, has_graph_service, indexed, seeds, graph_nodes, graph_outcome, final_results, search_error>>
  /\ UNCHANGED notSearchVars

\* _perform_search: the fused query and the result list (lines 80-106)
SearchQueryPoints ==
  /\ search_pc = "query_points"
  /\ Call("query_points")
  /\ seeds' \in SeedLists(top_k, threshold)
  /\ search_pc' = "expand"
  /\ UNCHANGED <<query, top_k, threshold, max_graph_hops, graph_limit, has_doc_service, has_graph_service, indexed, graph_nodes, graph_outcome, final_results, search_error>>
  /\ UNCHANGED notSearchVars

\* _expand_with_graph returns the seeds without a graph call (lines 187-193)
SearchNoExpansion ==
  /\ search_pc = "expand"
  /\ ~has_graph_service \/ IsNone(max_graph_hops) \/ seeds = <<>>
  /\ final_results' = seeds
  /\ search_pc' = "returned"
  /\ UNCHANGED <<query, top_k, threshold, max_graph_hops, graph_limit, has_doc_service, has_graph_service, indexed, calls, seeds, graph_nodes, graph_outcome, search_error>>
  /\ UNCHANGED notSearchVars

\* graph_service.neighbors raises: the seeds are returned (lines 195-203)
SearchGraphRaises ==
  /\ search_pc = "expand"
  /\ has_graph_service /\ ~IsNone(max_graph_hops) /\ seeds # <<>>
  /\ Call("neighbors")
  /\ graph_outcome' = "raised"
  /\ final_results' = ResultOnGraphError(seeds)
  /\ search_pc' = "returned"
  /\ UNCHANGED <<query, top_k, threshold, max_graph_hops, graph_limit, has_doc_service, has_graph_service, indexed, seeds, graph_nodes, search_error>>
  /\ UNCHANGED notSearchVars

\* graph_service.neighbors returns nodes of distinct non-empty ids, the
\* start nodes possibly among them, and they are merged (lines 196-240)
SearchGraphReturns ==
  /\ search_pc = "expand"
  /\ has_graph_service /\ ~IsNone(max_graph_hops) /\ seeds # <<>>
  /\ Call("neighbors")
  /\ \E nodes \in DistinctSeqs(NodeIds, MaxNode) :
       /\ graph_nodes' = nodes
       /\ final_results' = ExpandResults(seeds, nodes, EffectiveLimit(graph_limit))
  /\ graph_outcome' = "returned"
  /\ search_pc' = "returned"
  /\ UNCHANGED <<query, top_k, threshold, max_graph_hops, graph_limit, has_doc_service, has_graph_service, indexed, seeds, search_error>>
  /\ UNCHANGED notSearchVars

\* an embedding call or the vector-DB query raises: search propagates it
SearchRemoteError ==
  /\ search_pc \in {"collection_exists", "embed_code", "embed_doc", "query_points"}
  /\ Call(IF search_pc \in {"embed_code", "embed_doc"} THEN "embed" ELSE search_pc)
  /\ search_pc' = "failed"
  /\ search_error' = "Remote"
  /\ UNCHANGED <<query, top_k, threshold, max_graph_hops, graph_limit, has_doc_service, has_graph_service, indexed, seeds, graph_nodes, graph_outcome, final_results>>
  /\ UNCHANGED notSearchVars

SearchNext ==
  \/ SearchValidate
  \/ SearchCollectionExists
  \/ SearchEmbedCode
  \/ SearchEmbedDoc
  \/ SearchQueryPoints
  \/ SearchNoExpansion
  \/ SearchGraphRaises
  \/ SearchGraphReturns
  \/ SearchRemoteError

SpecSearch == SearchInit /\ [][SearchNext]_vars

(***************************************************************************)
(* SpecSplit: TreeSitterSplitter.split (splitters/tree_sitter.py) as a     *)
(* function of the file content, the outcome of parsing, chunk_size and    *)
(* chunk_overlap. A string is a sequence of characters.                    *)
(***************************************************************************)
Chars == {"x", " ", "\n"}

IsSpace(ch) == ch \in {" ", "\n"}

Strings(n) == UNION {[1..k -> Chars] : k \in 0..n}

RECURSIVE LStrip(_)
LStrip(t) == IF t # <<>> /\ IsSpace(Head(t)) THEN LStrip(Tail(t)) ELSE t

RECURSIVE RStrip(_)
RStrip(t) == IF t # <<>> /\ IsSpace(t[Len(t)]) THEN RStrip(SubSeq(t, 1, Len(t) - 1)) ELSE t

\* str.strip()
Strip(t) == RStrip(LStrip(t))

\* number of newlines in t
Newlines(t) == Cardinality({i \in 1..Len(t) : t[i] = "\n"})

\* len(t.splitlines()): a trailing newline opens no further line
SplitlinesLen(t) == IF t = <<>> THEN 0 ELSE Newlines(t) + (IF t[Len(t)] = "\n" THEN 0 ELSE 1)

\* _get_line_count (lines 416-417)
GetLineCount(t) == IF t # <<>> THEN SplitlinesLen(t) ELSE 0

RECURSIVE SplitNewline(_)
\* t.split("\n")
SplitNewline(t) ==
  LET nl == {i \in 1..Len(t) : t[i] = "\n"}
  IN IF nl = {} THEN <<t>>
     ELSE LET i == CHOOSE k \in nl : \A j \in nl : k <= j
          IN <<SubSeq(t, 1, i - 1)>> \o SplitNewline(SubSeq(t, i + 1, Len(t)))

\* line + ("\n" if i < len(lines) - 1 else ""), i counted from 0
LineWithNewline(lines, i) == IF i < Len(lines) - 1 THEN Append(lines[i + 1], "\n") ELSE lines[i + 1]

\* t[-n:] for n > 0
Suffix(t, n) == IF n >= Len(t) THEN t ELSE SubSeq(t, Len(t) - n + 1, Len(t))

Max2(a, b) == IF a >= b THEN a ELSE b

RECURSIVE SplitLargeLoop(_, _, _, _, _, _, _, _)
\* the loop of _split_large_chunk and its final append (lines 347-383)
SplitLargeLoop(lines, i, current_chunk, current_start_line, current_line_count, sub_chunks, start_line, size) ==
  IF i = Len(lines)
    THEN IF Strip(current_chunk) # <<>>
           THEN Append(sub_chunks, [content |-> Strip(current_chunk), start_line |-> current_start_line, end_line |-> current_start_line + current_line_count - 1])
           ELSE sub_chunks
    ELSE IF Len(current_chunk) + Len(LineWithNewline(lines, i)) > size /\ Strip(current_chunk) # <<>>
           THEN SplitLargeLoop(lines, i + 1, LineWithNewline(lines, i), start_line + i, 1, Append(sub_chunks, [content |-> Strip(current_chunk), start_line |-> current_start_line, end_line |-> current_start_line + current_line_count - 1]), start_line, size)
           ELSE SplitLargeLoop(lines, i + 1, current_chunk \o LineWithNewline(lines, i), current_start_line, current_line_count + 1, sub_chunks, start_line, size)

\* _split_large_chunk (lines 339-383)
SplitLargeChunk(chunk, size) == SplitLargeLoop(SplitNewline(chunk.content), 0, <<>>, chunk.start_line, 0, <<>>, chunk.start_line, size)

\* a refinement without the overlap step
AddOverlap_Skipped(chunks, overlap) == chunks

\* _add_overlap (lines 385-414)
AddOverlap(chunks, overlap) ==
  IF Len(chunks) <= 1 \/ overlap <= 0 THEN chunks
  ELSE [i \in 1..Len(chunks) |->
         IF i = 1 THEN chunks[i]
         ELSE LET overlap_text == Suffix(chunks[i - 1].content, overlap)
              IN [content |-> IF overlap_text # <<>> THEN overlap_text \o <<"\n">> \o chunks[i].content ELSE chunks[i].content,
                  start_line |-> Max2(1, chunks[i].start_line - GetLineCount(overlap_text)),
                  end_line |-> chunks[i].end_line]]

RECURSIVE RefineChunks(_, _, _)
\* _refine_chunks (lines 326-337)
RefineChunks(chunks, size, overlap) ==
  IF chunks = <<>> THEN <<>>
  ELSE (IF Len(Head(chunks).content) <= size THEN <<Head(chunks)>> ELSE AddOverlap(SplitLargeChunk(Head(chunks), size), overlap)) \o RefineChunks(Tail(chunks), size, overlap)

RECURSIVE FallbackLoop(_, _, _, _, _, _)
\* the loop of _fallback_text_split and its final append (lines 424-464)
FallbackLoop(lines, i, current_chunk, current_start_line, chunks, size) ==
  IF i = Len(lines)
    THEN IF Strip(current_chunk) # <<>>
           THEN Append(chunks, [content |-> Strip(current_chunk), start_line |-> current_start_line, end_line |-> Len(lines)])
           ELSE chunks
    ELSE IF Len(current_chunk) + Len(LineWithNewline(lines, i)) > size /\ Strip(current_chunk) # <<>>
           THEN FallbackLoop(lines, i + 1, LineWithNewline(lines, i), i + 1, Append(chunks, [content |-> Strip(current_chunk), start_line |-> current_start_line, end_line |-> i]), size)
           ELSE FallbackLoop(lines, i + 1, current_chunk \o LineWithNewline(lines, i), current_start_line, chunks, size)

\* _fallback_text_split for a supported suffix
FallbackTextSplit(text, size) == FallbackLoop(SplitNewline(text), 0, <<>>, 1, <<>>, size)

\* the chunk traverse() makes of one splittable node (lines 108-124); the
\* rows of the node are those of its first and last character
NodeChunk(text, node) == [content |-> Strip(SubSeq(text, node.from, node.to)), start_line |-> 1 + Newlines(SubSeq(text, 1, node.from - 1)), end_line |-> 1 + Newlines(SubSeq(text, 1, node.to - 1))]

RECURSIVE NodeChunks(_, _)
NodeChunks(text, nodes) == IF nodes = <<>> THEN <<>> ELSE (IF Strip(SubSeq(text, Head(nodes).from, Head(nodes).to)) # <<>> THEN <<NodeChunk(text, Head(nodes))>> ELSE <<>>) \o NodeChunks(text, Tail(nodes))

\* the chunk of a file without a splittable node (lines 131-142)
WholeFileChunk(text) == <<[content |-> Strip(text), start_line |-> 1, end_line |-> IF SplitlinesLen(text) = 0 THEN 1 ELSE SplitlinesLen(text)]>>

\* _extract_chunks (lines 94-144)
ExtractChunks(text, nodes) == IF NodeChunks(text, nodes) = <<>> THEN WholeFileChunk(text) ELSE NodeChunks(text, nodes)

\* split (lines 58-90)
SplitCode(text, mode, nodes, size, overlap) ==
  IF mode = "unsupported" THEN <<>>
  ELSE IF mode = "no_parser" THEN FallbackTextSplit(text, size)
  ELSE RefineChunks(ExtractChunks(text, nodes), size, overlap)

\* the splittable nodes of a parsed file: none, or one span of the text
\* that starts and ends at a visible character
NodeLists(text) == {<<>>} \cup {<<[from |-> i, to |-> j]>> : <<i, j>> \in {x \in (1..Len(text)) \X (1..Len(text)) : x[1] <= x[2] /\ ~IsSpace(text[x[1]]) /\ ~IsSpace(text[x[2]])}}

NotSplitIdle == IdxIdle /\ CmpIdle /\ SearchIdle /\ GraphIdle /\ ExplainIdle /\ RetryIdle /\ SaveIdle /\ ListIdle /\ AugIdle

SplitInit ==
  /\ NotSplitIdle
  /\ code \in Strings(MaxCodeLen)
  /\ parse_mode \in {"unsupported", "no_parser", "parsed"}
  /\ parse_nodes \in NodeLists(code)
  /\ parse_mode # "parsed" => parse_nodes = <<>>
  /\ chunk_size \in 2..MaxChunkSize
  /\ chunk_overlap \in 0..MaxOverlap
  /\ split_out = <<>>
  /\ split_done = FALSE

\* split is applied to the file
SplitApply ==
  /\ ~split_done
  /\ split_out' = SplitCode(code, parse_mode, parse_nodes, chunk_size, chunk_overlap)
  /\ split_done' = TRUE
  /\ UNCHANGED <<code, parse_mode, parse_nodes, chunk_size, chunk_overlap>>
  /\ UNCHANGED notSplitVars

SplitNext == SplitApply

SpecSplit == SplitInit /\ [][SplitNext]_vars

(***************************************************************************)
(* SpecGraph: GraphEdgeBuilder.build (graph/builder.py) with the reference *)
(* edges of DefaultGraphBuilder (graph/builders/default.py), applied to    *)
(* every chunk list within the bounds.                                     *)
(***************************************************************************)
ChunkIds == 1..MaxChunkId

\* make_chunk_id_from_components: the id is a function of the file, the
\* node type, the parent id and the identifier, so chunks of one id agree on
\* them. Ids below MaxChunkId are in a.py, MaxChunkId is in the second file.
FileOfId(i) == IF i = MaxChunkId THEN "b" ELSE "a"

\* the definition name of the node of a chunk (its identifier)
NameOfId(i) == IF i = 2 THEN "g" ELSE "f"

\* parent_chunk_id per chunk id: None, or a smaller id of the same file
ParentMaps == {pm \in [ChunkIds -> Optional(ChunkIds)] : \A i \in ChunkIds : \A q \in pm[i] : q < i /\ FileOfId(q) = FileOfId(i)}

\* a reference candidate: the referenced name and the kind of reference
Candidate(n, k) == [name |-> n, kind |-> k]

\* the candidate lists of a node, in the order _reference_candidates yields
\* them: no reference, one call or use, the same call twice
RefLists == {<<>>, <<Candidate("f", "call")>>, <<Candidate("f", "call"), Candidate("f", "call")>>, <<Candidate("f", "identifier")>>, <<Candidate("g", "call")>>}

\* ref.node: None, or one of the AST nodes
AstNodes == Optional(1..MaxAstNodes)

ChunkShapes == UNION {[1..n -> ChunkIds \X AstNodes \X RefLists] : n \in 0..MaxChunks}

\* the chunk list of a shape: chunks come in source order, one line each
MakeChunks(shape, pm, lang_b) == [k \in 1..Len(shape) |-> [id |-> shape[k][1], parent_chunk_id |-> pm[shape[k][1]], node |-> shape[k][2], refs |-> shape[k][3], name |-> NameOfId(shape[k][1]), file_path |-> FileOfId(shape[k][1]), language |-> IF FileOfId(shape[k][1]) = "a" THEN "python" ELSE lang_b, start_line |-> k, end_line |-> k]]

RECURSIVE SelectIdx(_, _)
\* the indices of a set in increasing order
SelectIdx(I, n) == IF n = 0 THEN <<>> ELSE SelectIdx(I, n - 1) \o (IF n \in I THEN <<n>> ELSE <<>>)

\* the sub-list of the chunks that satisfy a test, given as an index set
SubList(cs, I) == [k \in 1..Len(SelectIdx(I, Len(cs))) |-> cs[SelectIdx(I, Len(cs))[k]]]

\* _parent_edges (builder.py lines 27-45)
ParentEdges(cs) == LET kept == SubList(cs, {k \in 1..Len(cs) : cs[k].parent_chunk_id # {} /\ \E j \in 1..Len(cs) : cs[j].id \in cs[k].parent_chunk_id}) IN [k \in 1..Len(kept) |-> [source_id |-> ValueOf(kept[k].parent_chunk_id), target_id |-> kept[k].id, edge_type |-> "PARENT_OF"]]

RECURSIVE SortByLines(_)
\* sorted(refs, key=(start_line, end_line)): a stable sort
SortByLines(refs) ==
  IF refs = <<>> THEN <<>>
  ELSE LET least(a, b) == a.start_line < b.start_line \/ (a.start_line = b.start_line /\ a.end_line <= b.end_line)
           m == CHOOSE k \in 1..Len(refs) : (\A j \in 1..Len(refs) : least(refs[k], refs[j])) /\ (\A j \in 1..(k - 1) : ~least(refs[j], refs[k]))
       IN <<refs[m]>> \o SortByLines(SubSeq(refs, 1, m - 1) \o SubSeq(refs, m + 1, Len(refs)))

\* the CONTINUES edges of one group (lines 57-70)
ChainEdges(refs) == IF Len(refs) < 2 THEN <<>> ELSE [k \in 1..(Len(refs) - 1) |-> [source_id |-> SortByLines(refs)[k].id, target_id |-> SortByLines(refs)[k + 1].id, edge_type |-> "CONTINUES"]]

\* keys of a grouping dict in insertion order: the first chunk of each group
FirstOfGroups(cs, key(_)) == SelectIdx({k \in 1..Len(cs) : \A j \in 1..(k - 1) : key(cs[j]) # key(cs[k])}, Len(cs))

\* _continuation_edges (lines 47-72): chunks grouped by their node
ContinuationEdges(cs) ==
  LET withNode == SubList(cs, {k \in 1..Len(cs) : cs[k].node # {}})
      nodeOf(c) == c.node
      firsts == FirstOfGroups(withNode, nodeOf)
  IN Flatten([g \in 1..Len(firsts) |-> ChainEdges(SubList(withNode, {k \in 1..Len(withNode) : withNode[k].node = withNode[firsts[g]].node}))])

\* the matches of symbol_index for a candidate of a chunk (default.py lines
\* 55-72, 92): the chunks with a node whose definition name is the name
Matches(refs, c) == SubList(refs, {k \in 1..Len(refs) : refs[k].node # {} /\ refs[k].name = c.name})

\* the edges a candidate of ref contributes before deduplication (lines 96-109)
CandidateEdges(refs, ref, c, include_intra_file_refs) ==
  LET ms == Matches(refs, c)
      ok == SubList(ms, {k \in 1..Len(ms) : ms[k].id # ref.id /\ (ms[k].file_path # ref.file_path \/ include_intra_file_refs)})
  IN [k \in 1..Len(ok) |-> [source_id |-> ref.id, target_id |-> ok[k].id, edge_type |-> IF c.kind = "call" THEN "CALLS" ELSE "USES"]]

RECURSIVE KeepFirst(_, _)
\* the seen set of _reference_edges (lines 110-113): later equal edges are dropped
KeepFirst(es, seen) == IF es = <<>> THEN <<>> ELSE IF Head(es) \in seen THEN KeepFirst(Tail(es), seen) ELSE <<Head(es)>> \o KeepFirst(Tail(es), seen \cup {Head(es)})

\* DefaultGraphBuilder.build on the chunks of one language (lines 47-122)
ReferenceEdges(refs, include_intra_file_refs) == KeepFirst(Flatten([k \in 1..Len(refs) |-> IF refs[k].node = {} THEN <<>> ELSE Flatten([n \in 1..Len(refs[k].refs) |-> CandidateEdges(refs, refs[k], refs[k].refs[n], include_intra_file_refs)])]), {})

\* _language_edges (builder.py lines 74-83): one builder per language
LanguageEdges(cs, include_intra_file_refs) ==
  LET langOf(c) == c.language
      firsts == FirstOfGroups(cs, langOf)
  IN Flatten([g \in 1..Len(firsts) |-> ReferenceEdges(SubList(cs, {k \in 1..Len(cs) : cs[k].language = cs[firsts[g]].language}), include_intra_file_refs)])

\* GraphEdgeBuilder.build with the defaults include_parents=True and
\* include_intra_file_refs=False (lines 13-25)
BuildEdges(cs) == ParentEdges(cs) \o ContinuationEdges(cs) \o LanguageEdges(cs, FALSE)

NotGraphIdle == IdxIdle /\ CmpIdle /\ SearchIdle /\ SplitIdle /\ ExplainIdle /\ RetryIdle /\ SaveIdle /\ ListIdle /\ AugIdle

GraphInit ==
  /\ NotGraphIdle
  /\ \E sh \in ChunkShapes, pm \in ParentMaps, lb \in {"python", "go"} : build_chunks = MakeChunks(sh, pm, lb)
  /\ build_edges = <<>>
  /\ build_done = FALSE

\* build is applied to the chunk list
GraphBuild ==
  /\ ~build_done
  /\ build_edges' = BuildEdges(build_chunks)
  /\ build_done' = TRUE
  /\ UNCHANGED build_chunks
  /\ UNCHANGED notGraphVars

GraphNext == GraphBuild

SpecGraph == GraphInit /\ [][GraphNext]_vars

(***************************************************************************)
(* SpecExplain: ExplainerService.get_explanations                          *)
(* (services/utils/explainer_service.py). Each request is a task running   *)
(* _get_explanation under its retry decorator; the remote service answers, *)
(* rate-limits or fails each attempt.                                      *)
(***************************************************************************)
NewRequest == [status |-> "pending", attempt |-> 0]

Completed(r) == r.status \in {"done", "failed"}

\* itertools.batched(code_chunks, parallelism): the chunks of the batch that
\* follows the first d chunks
BatchAfter(d, n, total) == (d + 1)..(IF d + n < total THEN d + n ELSE total)

\* the batch dispatched last: the chunks from the last multiple of n below d
CurrentBatch(d, n) == IF d = 0 THEN {} ELSE (((d - 1) \div n) * n + 1)..d

\* a loop that goes on to the next batch as soon as one result is there
BatchAwaited_FirstResult(reqs, d, n) == d = 0 \/ \E i \in CurrentBatch(d, n) : reqs[i].status = "done"

\* the await of the batch has returned (lines 50, 66): gather returns when
\* every task of the batch has returned its result
BatchAwaited(reqs, d, n) == \A i \in CurrentBatch(d, n) : reqs[i].status = "done"

NotExplainIdle == IdxIdle /\ CmpIdle /\ SearchIdle /\ SplitIdle /\ GraphIdle /\ RetryIdle /\ SaveIdle /\ ListIdle /\ AugIdle

ExplainInit ==
  /\ NotExplainIdle
  /\ parallelism \in 1..MaxParallelism
  /\ \E total \in 0..MaxExplainChunks : requests = [i \in 1..total |-> NewRequest]
  /\ dispatched = 0
  /\ explain_pc = "running"

\* the next batch is dispatched: one task per chunk, each sending its first
\* attempt (lines 49-50, 61-66)
ExplainDispatch ==
  /\ explain_pc = "running"
  /\ dispatched < Len(requests)
  /\ BatchAwaited(requests, dispatched, parallelism)
  /\ requests' = [i \in 1..Len(requests) |-> IF i \in BatchAfter(dispatched, parallelism, Len(requests)) THEN [status |-> "in_flight", attempt |-> 1] ELSE requests[i]]
  /\ dispatched' = dispatched + Cardinality(BatchAfter(dispatched, parallelism, Len(requests)))
  /\ UNCHANGED <<parallelism, explain_pc>>
  /\ UNCHANGED notExplainVars

\* the service answers a request (lines 33-43)
ExplainAnswered ==
  /\ \E i \in 1..Len(requests) :
       /\ requests[i].status = "in_flight"
       /\ requests' = [requests EXCEPT ![i].status = "done"]
  /\ UNCHANGED <<parallelism, dispatched, explain_pc>>
  /\ UNCHANGED notExplainVars

\* the service rate-limits a request: the decorator sleeps and retries, or
\* gives up after the last attempt (lines 26-31)
ExplainRateLimited ==
  /\ \E i \in 1..Len(requests) :
       /\ requests[i].status = "in_flight"
       /\ requests' = [requests EXCEPT ![i].status = IF requests[i].attempt < StopAfterAttempt THEN "sleeping" ELSE "failed"]
  /\ UNCHANGED <<parallelism, dispatched, explain_pc>>
  /\ UNCHANGED notExplainVars

\* the backoff of a request is over: the next attempt is sent
ExplainRetry ==
  /\ \E i \in 1..Len(requests) :
       /\ requests[i].status = "sleeping"
       /\ requests' = [requests EXCEPT ![i] = [status |-> "in_flight", attempt |-> requests[i].attempt + 1]]
  /\ UNCHANGED <<parallelism, dispatched, explain_pc>>
  /\ UNCHANGED notExplainVars

\* a request fails with another error, which is not retried
ExplainOtherError ==
  /\ \E i \in 1..Len(requests) :
       /\ requests[i].status = "in_flight"
       /\ requests' = [requests EXCEPT ![i].status = "failed"]
  /\ UNCHANGED <<parallelism, dispatched, explain_pc>>
  /\ UNCHANGED notExplainVars

\* the await of the batch raises the error of a failed request; gather does
\* not cancel the other tasks of the batch, which go on
ExplainRaise ==
  /\ explain_pc = "running"
  /\ \E i \in CurrentBatch(dispatched, parallelism) : requests[i].status = "failed"
  /\ explain_pc' = "raised"
  /\ UNCHANGED <<parallelism, requests, dispatched>>
  /\ UNCHANGED notExplainVars

\* every batch has been awaited: the explanations are returned
ExplainReturn ==
  /\ explain_pc = "running"
  /\ dispatched = Len(requests)
  /\ BatchAwaited(requests, dispatched, parallelism)
  /\ explain_pc' = "returned"
  /\ UNCHANGED <<parallelism, requests, dispatched>>
  /\ UNCHANGED notExplainVars

ExplainNext ==
  \/ ExplainDispatch
  \/ ExplainAnswered
  \/ ExplainRateLimited
  \/ ExplainRetry
  \/ ExplainOtherError
  \/ ExplainRaise
  \/ ExplainReturn

SpecExplain == ExplainInit /\ [][ExplainNext]_vars

(***************************************************************************)
(* SpecRetry: the calls to the remote model service and their retry        *)
(* decorators (services/utils/embedding_service.py, explainer_service.py). *)
(***************************************************************************)
RetryFns == {"generate_embedding", "generate_embeddings", "_get_explanation"}

\* the functions that carry the @retry decorator: generate_embedding
\* (embedding_service.py:19-23) and _get_explanation
\* (explainer_service.py:26-31); generate_embeddings (29-41) carries none
Decorated(fn) == fn \in {"generate_embedding", "_get_explanation"}

\* attempts a function makes for one request before it gives up
AttemptsAllowed(fn) == IF Decorated(fn) THEN StopAfterAttempt ELSE 1

\* what the remote service does with one attempt
Outcomes == {"ok", "rate_limit", "error"}

\* texts of the request in progress: one batch of itertools.batched, or the
\* single text
RequestSize == IF retry_fn = "generate_embeddings" THEN (IF retry_queries - retry_done < retry_batch_size THEN retry_queries - retry_done ELSE retry_batch_size) ELSE 1

NotRetryIdle == IdxIdle /\ CmpIdle /\ SearchIdle /\ SplitIdle /\ GraphIdle /\ ExplainIdle /\ SaveIdle /\ ListIdle /\ AugIdle

RetryInit ==
  /\ NotRetryIdle
  /\ retry_fn \in RetryFns
  /\ retry_queries \in (IF retry_fn = "generate_embeddings" THEN 0..MaxQueries ELSE {1})
  /\ retry_batch_size \in (IF retry_fn = "generate_embeddings" THEN {1, 2, DefaultBatchSize} ELSE {1})
  /\ retry_done = 0
  /\ retry_attempt = 0
  /\ retry_log = <<>>
  /\ retry_pc = "calling"
  /\ retry_error = {}

\* one attempt of the current request is answered
RetryAnswered ==
  /\ retry_pc = "calling"
  /\ retry_done < retry_queries
  /\ retry_done' = retry_done + RequestSize
  /\ retry_attempt' = 0
  /\ retry_log' = <<>>
  /\ UNCHANGED <<retry_fn, retry_queries, retry_batch_size, retry_pc, retry_error>>
  /\ UNCHANGED notRetryVars

\* one attempt of the current request is rate-limited: the decorator, where
\* there is one, sleeps and tries again, and after the last attempt raises
\* its RetryError; without a decorator the RateLimitError leaves the call
RetryRateLimited ==
  /\ retry_pc = "calling"
  /\ retry_done < retry_queries
  /\ retry_attempt' = retry_attempt + 1
  /\ retry_log' = Append(retry_log, "rate_limit")
  /\ IF retry_attempt + 1 < AttemptsAllowed(retry_fn)
     THEN retry_pc' = "sleeping" /\ UNCHANGED retry_error
     ELSE retry_pc' = "raised" /\ retry_error' = {IF Decorated(retry_fn) THEN "RetryError" ELSE "RateLimitError"}
  /\ UNCHANGED <<retry_fn, retry_queries, retry_batch_size, retry_done>>
  /\ UNCHANGED notRetryVars

\* the wait of wait_exponential is over
RetryWakeUp ==
  /\ retry_pc = "sleeping"
  /\ retry_pc' = "calling"
  /\ UNCHANGED <<retry_fn, retry_queries, retry_batch_size, retry_done, retry_attempt, retry_log, retry_error>>
  /\ UNCHANGED notRetryVars

\* one attempt fails with an error that is not a rate limit: not retried
RetryOtherError ==
  /\ retry_pc = "calling"
  /\ retry_done < retry_queries
  /\ retry_attempt' = retry_attempt + 1
  /\ retry_log' = Append(retry_log, "error")
  /\ retry_pc' = "raised"
  /\ retry_error' = {"APIError"}
  /\ UNCHANGED <<retry_fn, retry_queries, retry_batch_size, retry_done>>
  /\ UNCHANGED notRetryVars

\* every text has been answered: the result is returned
RetryReturn ==
  /\ retry_pc = "calling"
  /\ retry_done = retry_queries
  /\ retry_pc' = "returned"
  /\ UNCHANGED <<retry_fn, retry_queries, retry_batch_size, retry_done, retry_attempt, retry_log, retry_error>>
  /\ UNCHANGED notRetryVars

RetryNext ==
  \/ RetryAnswered
  \/ RetryRateLimited
  \/ RetryWakeUp
  \/ RetryOtherError
  \/ RetryReturn

SpecRetry == RetryInit /\ [][RetryNext]_vars

(***************************************************************************)
(* SpecSave: SnapshotFileStateRepository.save and load                     *)
(* (sync/state/local.py), the same code as write_snapshot / load_snapshot  *)
(* (sync/io.py) and _save_snapshot (sync/files.py). The text of the file   *)
(* is a sequence of tokens; a save truncates the file and writes the text  *)
(* piece by piece, and the process may stop or a load may run in between.  *)
(***************************************************************************)
SavePaths == 1..SaveMaxPath

\* file maps: path -> hash, for some of the paths
FileMaps == UNION {[ps -> 1..SaveMaxHash] : ps \in SUBSET SavePaths}

Token(kind, path, value) == [kind |-> kind, path |-> path, value |-> value]

\* the entries of "files", in the order of the paths
RECURSIVE DumpFiles(_, _)
DumpFiles(files, from) ==
  IF from > SaveMaxPath THEN <<>>
  ELSE (IF from \in DOMAIN files THEN <<Token("file", from, files[from])>> ELSE <<>>) \o DumpFiles(files, from + 1)

\* json.dumps(payload): the version, then the files (lines 38-43)
Dumps(files) == <<Token("{", 0, 0), Token("version", 0, SnapshotVersion)>> \o DumpFiles(files, 1) \o <<Token("}", 0, 0)>>

\* json.loads succeeds on a text: it opens, closes, and holds entries between
WellFormed(text) ==
  /\ Len(text) >= 2
  /\ text[1].kind = "{"
  /\ text[Len(text)].kind = "}"
  /\ \A i \in 2..(Len(text) - 1) : text[i].kind \in {"version", "file"}

\* data.get("version", 0)
VersionOf(text) == IF \E i \in 1..Len(text) : text[i].kind = "version" THEN (CHOOSE v \in {text[i].value : i \in {j \in 1..Len(text) : text[j].kind = "version"}} : TRUE) ELSE 0

\* data.get("files", {}) as a file map
FilesOf(text) == [p \in {text[i].path : i \in {j \in 1..Len(text) : text[j].kind = "file"}} |-> (CHOOSE v \in {text[i].value : i \in {j \in 1..Len(text) : text[j].kind = "file" /\ text[j].path = p}} : TRUE)]

\* load (lines 23-35): no file, a text that does not parse, or another
\* version give the empty map
Load(d) ==
  IF d = {} THEN << >>
  ELSE IF ~WellFormed(ValueOf(d)) THEN << >>
  ELSE IF VersionOf(ValueOf(d)) # SnapshotVersion THEN << >>
  ELSE FilesOf(ValueOf(d))

NotSaveIdle == IdxIdle /\ CmpIdle /\ SearchIdle /\ SplitIdle /\ GraphIdle /\ ExplainIdle /\ RetryIdle /\ ListIdle /\ AugIdle

\* a codebase with or without a snapshot of an earlier save
SaveInit ==
  /\ NotSaveIdle
  /\ save_old \in FileMaps
  /\ save_new \in FileMaps
  /\ disk \in (IF save_old = << >> THEN {{}, {Dumps(save_old)}} ELSE {{Dumps(save_old)}})
  /\ save_pc = "start"
  /\ loaded = {}

\* write_text opens the file for writing: it is created or emptied
SaveTruncate ==
  /\ save_pc = "start"
  /\ disk' = {<<>>}
  /\ save_pc' = "writing"
  /\ UNCHANGED <<save_old, save_new, loaded>>
  /\ UNCHANGED notSaveVars

\* the next piece of the text reaches the file
SaveWrite ==
  /\ save_pc = "writing"
  /\ Len(ValueOf(disk)) < Len(Dumps(save_new))
  /\ disk' = {Append(ValueOf(disk), Dumps(save_new)[Len(ValueOf(disk)) + 1])}
  /\ UNCHANGED <<save_old, save_new, save_pc, loaded>>
  /\ UNCHANGED notSaveVars

\* the whole text is written: write_text closes the file and save returns
SaveClose ==
  /\ save_pc = "writing"
  /\ ValueOf(disk) = Dumps(save_new)
  /\ save_pc' = "saved"
  /\ UNCHANGED <<disk, save_old, save_new, loaded>>
  /\ UNCHANGED notSaveVars

\* the process stops in the middle of the save
SaveStop ==
  /\ save_pc \in {"start", "writing"}
  /\ save_pc' = "stopped"
  /\ UNCHANGED <<disk, save_old, save_new, loaded>>
  /\ UNCHANGED notSaveVars

\* the snapshot of the codebase is loaded, by this or another process
SaveLoad ==
  /\ loaded' = {Load(disk)}
  /\ loaded' # loaded
  /\ UNCHANGED <<disk, save_old, save_new, save_pc>>
  /\ UNCHANGED notSaveVars

SaveNext ==
  \/ SaveTruncate
  \/ SaveWrite
  \/ SaveClose
  \/ SaveStop
  \/ SaveLoad

SpecSave == SaveInit /\ [][SaveNext]_vars

(***************************************************************************)
(* SpecList: LocalFileLister.list_metadata (sync/file_listing/local.py),   *)
(* the same walk as scan_metadata (sync/scanner.py). Names, paths and      *)
(* patterns are sequences of characters; a path is a sequence of names.    *)
(***************************************************************************)
\* SUPPORTED_EXTENSIONS (of which the tree below uses .py)
SupportedExtensions == {<<".", "p", "y">>, <<".", "t", "s">>, <<".", "g", "o">>}

\* the codebase: every entry with its kind
TreeEntries == {
  [path |-> <<<<"d">>>>, is_dir |-> TRUE], [path |-> <<<<".", "h">>>>, is_dir |-> TRUE],
  [path |-> <<<<"m", ".", "p", "y">>>>, is_dir |-> FALSE], [path |-> <<<<"n", ".", "m", "d">>>>, is_dir |-> FALSE], [path |-> <<<<".", "m", ".", "p", "y">>>>, is_dir |-> FALSE],
  [path |-> <<<<"d">>, <<"m", ".", "p", "y">>>>, is_dir |-> FALSE], [path |-> <<<<"d">>, <<"n", ".", "m", "d">>>>, is_dir |-> FALSE], [path |-> <<<<"d">>, <<"d">>>>, is_dir |-> TRUE],
  [path |-> <<<<"d">>, <<"d">>, <<"m", ".", "p", "y">>>>, is_dir |-> FALSE], [path |-> <<<<".", "h">>, <<"m", ".", "p", "y">>>>, is_dir |-> FALSE]}

TreeDirs == {<<>>} \cup {e.path : e \in {x \in TreeEntries : x.is_dir}}

\* the contents a .gitignore may have, and the global patterns of a call
GitignoreTexts == {<<<<"*", ".", "p", "y">>>>, <<<<"#", "c">>, <<"*", ".", "p", "y">>, <<"!", "m", ".", "p", "y">>>>, <<<<"!", "m", ".", "p", "y">>>>, <<<<"d", "/">>>>, <<<<"/", "d", "/", "m", ".", "p", "y">>, <<"!", ".", "h">>>>, <<<<"!", "*">>>>, <<<<"!">>, <<".", "/", "d", "/", "d">>>>}

GlobalPatternLists == {<<>>, <<<<"d">>>>, <<<<"m", ".", "p", "y">>>>, <<<<"*">>>>, <<<<"/", "d", "/", "d", "/">>, <<"n", ".", "m", "d">>>>}

\* str.strip("/"), str.lstrip("/")
RECURSIVE LStripSlash(_)
LStripSlash(t) == IF t # <<>> /\ Head(t) = "/" THEN LStripSlash(Tail(t)) ELSE t

RECURSIVE RStripSlash(_)
RStripSlash(t) == IF t # <<>> /\ t[Len(t)] = "/" THEN RStripSlash(SubSeq(t, 1, Len(t) - 1)) ELSE t

StripSlash(t) == RStripSlash(LStripSlash(t))

\* "/".join(parts)
RECURSIVE JoinSlash(_)
JoinSlash(parts) == IF parts = <<>> THEN <<>> ELSE IF Len(parts) = 1 THEN parts[1] ELSE parts[1] \o <<"/">> \o JoinSlash(Tail(parts))

\* str.split("/")
RECURSIVE SplitSlash(_)
SplitSlash(t) ==
  IF \A i \in 1..Len(t) : t[i] # "/" THEN <<t>>
  ELSE LET k == CHOOSE i \in 1..Len(t) : t[i] = "/" /\ \A j \in 1..(i - 1) : t[j] # "/"
       IN <<SubSeq(t, 1, k - 1)>> \o SplitSlash(SubSeq(t, k + 1, Len(t)))

\* fnmatch.fnmatchcase, for patterns of characters and "*"
RECURSIVE FnMatchCase(_, _)
FnMatchCase(name, pat) ==
  IF pat = <<>> THEN name = <<>>
  ELSE IF Head(pat) = "*" THEN FnMatchCase(name, Tail(pat)) \/ (name # <<>> /\ FnMatchCase(Tail(name), pat))
  ELSE name # <<>> /\ Head(name) = Head(pat) /\ FnMatchCase(Tail(name), Tail(pat))

\* Path.suffix of a name: from its last dot, unless that dot leads or ends it
PathSuffix(name) ==
  LET dots == {i \in 1..Len(name) : name[i] = "."}
  IN IF dots = {} THEN <<>>
     ELSE LET k == CHOOSE i \in dots : \A j \in dots : j <= i
          IN IF k > 1 /\ k < Len(name) THEN SubSeq(name, k, Len(name)) ELSE <<>>

\* rel_path.is_file(): the relative path is looked up from the working directory
RelIsFile(rel, at_root) == at_root /\ [path |-> rel, is_dir |-> FALSE] \in TreeEntries

\* an is_file_supported that looks at the extension of every path
IsFileSupported_AnyKind(rel, at_root) == PathSuffix(rel[Len(rel)]) \in SupportedExtensions

\* is_file_supported (splitters/utils.py:94-97)
IsFileSupported(rel, at_root) == IF RelIsFile(rel, at_root) THEN PathSuffix(rel[Len(rel)]) \in SupportedExtensions ELSE TRUE

\* _match (lines 185-199)
Match(file_path, pattern, is_dir) ==
  LET clean == StripSlash(pattern)
      parts == SplitSlash(file_path)
  IN IF clean = <<>> THEN FALSE
     ELSE IF pattern[Len(pattern)] = "/" THEN is_dir /\ \E i \in 1..Len(parts) : FnMatchCase(parts[i], clean)
     ELSE IF \E i \in 1..Len(clean) : clean[i] = "/" THEN FnMatchCase(file_path, clean)
     ELSE FnMatchCase(parts[Len(parts)], clean)

\* one line of a .gitignore (lines 113-140): the pattern it gives, if any
ParseLine(line, dir_rel) ==
  IF line = <<>> \/ Head(line) = "#" THEN {}
  ELSE LET is_negated == Head(line) = "!"
           l1 == IF is_negated THEN Tail(line) ELSE line
           trailing_slash == l1 # <<>> /\ l1[Len(l1)] = "/"
           l2 == IF Len(l1) >= 2 /\ l1[1] = "." /\ l1[2] = "/" THEN SubSeq(l1, 3, Len(l1)) ELSE l1
           under == IF dir_rel = <<>> THEN <<>> ELSE dir_rel \o <<"/">>
           pattern == IF l2 # <<>> /\ Head(l2) = "/" THEN under \o LStripSlash(l2)
                      ELSE IF \E i \in 1..Len(l2) : l2[i] = "/" THEN under \o l2
                      ELSE l2
           slashed == IF trailing_slash /\ (pattern = <<>> \/ pattern[Len(pattern)] # "/") THEN pattern \o <<"/">> ELSE pattern
       IN IF StripSlash(slashed) = <<>> THEN {} ELSE {[pattern |-> StripSlash(slashed), negated |-> is_negated]}

\* _parse_gitignore_file (lines 98-141)
RECURSIVE ParseGitignoreFile(_, _)
ParseGitignoreFile(lines, dir_rel) ==
  IF lines = <<>> THEN <<>>
  ELSE (IF ParseLine(Head(lines), dir_rel) = {} THEN <<>> ELSE <<ValueOf(ParseLine(Head(lines), dir_rel))>>) \o ParseGitignoreFile(Tail(lines), dir_rel)

\* global_patterns (lines 20-22)
GlobalPatterns(given) == [i \in 1..Len(given) |-> [pattern |-> StripSlash(given[i]), negated |-> FALSE]]

\* _ancestors_for in the order of a walk from the leaf up to the root
AncestorsFor_LeafFirst(rel) == [i \in 1..Len(rel) |-> JoinSlash(SubSeq(rel, 1, Len(rel) - i))]

\* _ancestors_for (lines 174-182): the keys of the directories above rel,
\* the root first
AncestorsFor(rel) == [i \in 1..Len(rel) |-> JoinSlash(SubSeq(rel, 1, i - 1))]

\* the patterns of the .gitignore files above rel, in the order of the keys
RECURSIVE AncestorPatterns(_, _)
AncestorPatterns(keys, map) ==
  IF keys = <<>> THEN <<>>
  ELSE (IF Head(keys) \in DOMAIN map THEN map[Head(keys)] ELSE <<>>) \o AncestorPatterns(Tail(keys), map)

\* the loop of lines 167-171
RECURSIVE LastMatchWins(_, _, _, _)
LastMatchWins(patterns, normalized, is_dir, ignored) ==
  IF patterns = <<>> THEN ignored
  ELSE LastMatchWins(Tail(patterns), normalized, is_dir, IF Match(normalized, Head(patterns).pattern, is_dir) THEN ~Head(patterns).negated ELSE ignored)

\* _is_ignored (lines 144-171)
IsIgnored(rel, is_dir, globals, map, at_root) ==
  IF \E i \in 1..Len(rel) : Head(rel[i]) = "." THEN TRUE
  ELSE IF ~is_dir /\ ~IsFileSupported(rel, at_root) THEN TRUE
  ELSE IF JoinSlash(rel) = <<>> THEN FALSE
  ELSE LastMatchWins(globals \o AncestorPatterns(AncestorsFor(rel), map), JoinSlash(rel), is_dir, FALSE)

\* the entries os.scandir gives for a directory
EntriesOf(dir) == {e \in TreeEntries : Len(e.path) = Len(dir) + 1 /\ SubSeq(e.path, 1, Len(dir)) = dir}

\* _record_gitignore_patterns (lines 39-52)
RecordGitignore(dir, map) ==
  IF gitignore_files[dir] = {} THEN map
  ELSE [k \in DOMAIN map \cup {JoinSlash(dir)} |-> IF k = JoinSlash(dir) THEN ParseGitignoreFile(ValueOf(gitignore_files[dir]), JoinSlash(dir)) ELSE map[k]]

NotListIdle == IdxIdle /\ CmpIdle /\ SearchIdle /\ SplitIdle /\ GraphIdle /\ ExplainIdle /\ RetryIdle /\ SaveIdle /\ AugIdle

ListInit ==
  /\ NotListIdle
  /\ ignore_patterns \in GlobalPatternLists
  /\ gitignore_files \in [TreeDirs -> Optional(GitignoreTexts)]
  /\ gitignore_files[<<<<".", "h">>>>] = {}
  /\ cwd_is_root \in BOOLEAN
  /\ stack = <<<<>>>>
  /\ gitignore_map = << >>
  /\ result = {}
  /\ decided = << >>
  /\ list_pc = "walking"

\* one turn of the while loop (lines 24-34): a directory is popped, its
\* .gitignore recorded and its entries collected, in any order of scandir
ListVisit ==
  /\ list_pc = "walking"
  /\ stack # <<>>
  /\ LET directory == stack[Len(stack)]
         map == RecordGitignore(directory, gitignore_map)
         ignored(e) == IsIgnored(e.path, e.is_dir, GlobalPatterns(ignore_patterns), map, cwd_is_root)
         kept == {e \in EntriesOf(directory) : ~ignored(e)}
         subdirs == {e.path : e \in {x \in kept : x.is_dir}}
     IN /\ gitignore_map' = map
        /\ decided' = [q \in DOMAIN decided \cup {e.path : e \in EntriesOf(directory)} |-> IF q \in DOMAIN decided THEN decided[q] ELSE ignored(CHOOSE e \in EntriesOf(directory) : e.path = q)]
        /\ result' = result \cup {e.path : e \in {x \in kept : ~x.is_dir}}
        /\ \E pushed \in [1..Cardinality(subdirs) -> subdirs] :
             /\ \A i, j \in 1..Cardinality(subdirs) : i # j => pushed[i] # pushed[j]
             /\ stack' = SubSeq(stack, 1, Len(stack) - 1) \o pushed
  /\ UNCHANGED <<ignore_patterns, gitignore_files, cwd_is_root, list_pc>>
  /\ UNCHANGED notListVars

\* the stack is empty: the listing is returned (line 36)
ListReturn ==
  /\ list_pc = "walking"
  /\ stack = <<>>
  /\ list_pc' = "returned"
  /\ UNCHANGED <<ignore_patterns, gitignore_files, cwd_is_root, stack, gitignore_map, result, decided>>
  /\ UNCHANGED notListVars

ListNext ==
  \/ ListVisit
  \/ ListReturn

SpecList == ListInit /\ [][ListNext]_vars

(***************************************************************************)
(* SpecAugment: IndexingService._augment_with_explanations                 *)
(* (indexing_service.py:138-165) and the method it calls,                  *)
(* ExplainerService.get_explanations (services/utils/explainer_service.py),*)
(* which is also called on its own. Requests of a batch complete in any    *)
(* order.                                                                  *)
(***************************************************************************)
AugCodes == {<<"a">>, <<"b">>}

\* CodeChunk.doc as the splitter extracts it: None, blank or a text
AugDocs == Optional({<<>>, <<" ">>, <<"d">>})

\* the fields of a CodeChunk the augmentation reads or replaces; id stands
\* for the fields it copies
AugChunks == [id : 1..MaxExplainChunks, content : AugCodes, doc : AugDocs]

DefaultExplanation == <<"u", "n", "k", "n", "o", "w", "n">>

\* the text the remote model answers to the i-th request of the call
AnswerText(i) == <<"e", ToString(i)>>

\* the parameters of get_explanations after self, none of them with a default
GetExplanationsParams == <<"code_chunks", "model">>

\* the positional arguments _augment_with_explanations passes
AugmentArguments(codes) == <<codes>>

\* Python binds a call when every parameter without a default gets an
\* argument and no argument is left over; otherwise the call raises TypeError
Accepts(params, args) == Len(args) = Len(params)

\* c.doc is None or not c.doc.strip()
NeedsExplanation(c) == IsNone(c.doc) \/ Strip(ValueOf(c.doc)) = <<>>

\* indices: the positions of the chunks that need an explanation, ascending
Indices(chunks) == SelectIdx({i \in 1..Len(chunks) : NeedsExplanation(chunks[i])}, Len(chunks))

\* response.choices[0].message.content, or the default when it is None
ExplanationOf(content) == IF IsNone(content) THEN DefaultExplanation ELSE ValueOf(content)

\* the batch that follows the first d code strings: one code string when
\* parallelism is 1 (the sync loop), else the next itertools.batched batch
AugBatch(d, n, total) == (d + 1)..(IF d + n < total THEN d + n ELSE total)

\* asyncio.gather(*tasks): the results in the order of the tasks
Gather(tasks, batch) == [k \in 1..Cardinality(batch) |-> ExplanationOf(tasks[k + Len(aug_explanations)].content)]

\* for (idx, _), exp in zip(indices, explanations): chunks[idx] gets doc=exp
AssignDocs(chunks, indices, explanations) == [i \in 1..Len(chunks) |-> IF \E k \in 1..Len(indices) : k <= Len(explanations) /\ indices[k] = i THEN [chunks[i] EXCEPT !.doc = {explanations[CHOOSE k \in 1..Len(indices) : indices[k] = i]}] ELSE chunks[i]]

NotAugIdle == IdxIdle /\ CmpIdle /\ SearchIdle /\ SplitIdle /\ GraphIdle /\ ExplainIdle /\ RetryIdle /\ SaveIdle /\ ListIdle

AugInit ==
  /\ NotAugIdle
  /\ aug_entry \in {"augment", "get_explanations"}
  /\ aug_parallelism \in 1..MaxParallelism
  /\ \/ /\ aug_entry = "augment"
        /\ aug_explainer \in BOOLEAN
        /\ \E n \in 0..MaxExplainChunks : aug_chunks \in {cs \in [1..n -> AugChunks] : \A i \in 1..n : cs[i].id = i}
        /\ aug_codes = <<>>
     \/ /\ aug_entry = "get_explanations"
        /\ aug_explainer = TRUE
        /\ aug_chunks = <<>>
        /\ \E n \in 0..MaxExplainChunks : aug_codes \in [1..n -> AugCodes]
  /\ aug_tasks = <<>>
  /\ aug_finished = <<>>
  /\ aug_explanations = <<>>
  /\ aug_pc = "call"
  /\ aug_error = "none"
  /\ aug_out = <<>>

\* _augment_with_explanations up to its call of get_explanations (lines
\* 141-149): without an explainer the chunks are returned as they are
AugmentCall ==
  /\ aug_pc = "call"
  /\ aug_entry = "augment"
  /\ IF ~aug_explainer
       THEN /\ aug_pc' = "returned"
            /\ aug_out' = aug_chunks
            /\ UNCHANGED <<aug_codes, aug_tasks, aug_error>>
       ELSE LET codes == [k \in 1..Len(Indices(aug_chunks)) |-> aug_chunks[Indices(aug_chunks)[k]].content]
            IN  IF Accepts(GetExplanationsParams, AugmentArguments(codes))
                  THEN /\ aug_pc' = "running"
                       /\ aug_codes' = codes
                       /\ aug_tasks' = [i \in 1..Len(codes) |-> [state |-> "pending", content |-> {}]]
                       /\ UNCHANGED <<aug_error, aug_out>>
                  ELSE /\ aug_pc' = "raised"
                       /\ aug_error' = "TypeError"
                       /\ UNCHANGED <<aug_codes, aug_tasks, aug_out>>
  /\ UNCHANGED <<aug_entry, aug_explainer, aug_parallelism, aug_chunks, aug_finished, aug_explanations>>
  /\ UNCHANGED notAugVars

\* get_explanations(code_chunks, model) called on its own (line 71)
GetExplanationsCall ==
  /\ aug_pc = "call"
  /\ aug_entry = "get_explanations"
  /\ IF Accepts(GetExplanationsParams, <<aug_codes, "model">>)
       THEN /\ aug_pc' = "running"
            /\ aug_tasks' = [i \in 1..Len(aug_codes) |-> [state |-> "pending", content |-> {}]]
            /\ UNCHANGED aug_error
       ELSE /\ aug_pc' = "raised"
            /\ aug_error' = "TypeError"
            /\ UNCHANGED aug_tasks
  /\ UNCHANGED <<aug_entry, aug_explainer, aug_parallelism, aug_chunks, aug_codes, aug_finished, aug_explanations, aug_out>>
  /\ UNCHANGED notAugVars

\* the requests of the next batch are sent (lines 49-50, 61-65)
AugDispatch ==
  /\ aug_pc = "running"
  /\ Len(aug_explanations) < Len(aug_codes)
  /\ aug_tasks[Len(aug_explanations) + 1].state = "pending"
  /\ aug_tasks' = [i \in 1..Len(aug_tasks) |-> IF i \in AugBatch(Len(aug_explanations), aug_parallelism, Len(aug_codes)) THEN [state |-> "in_flight", content |-> {}] ELSE aug_tasks[i]]
  /\ UNCHANGED <<aug_entry, aug_explainer, aug_parallelism, aug_chunks, aug_codes, aug_finished, aug_explanations, aug_pc, aug_error, aug_out>>
  /\ UNCHANGED notAugVars

\* the remote model answers one of the requests in flight, with a text or
\* with no content (lines 33-40)
AugAnswered ==
  /\ \E i \in 1..Len(aug_tasks) :
       /\ aug_tasks[i].state = "in_flight"
       /\ \E content \in Optional({AnswerText(i)}) : aug_tasks' = [aug_tasks EXCEPT ![i] = [state |-> "done", content |-> content]]
       /\ aug_finished' = Append(aug_finished, i)
  /\ UNCHANGED <<aug_entry, aug_explainer, aug_parallelism, aug_chunks, aug_codes, aug_explanations, aug_pc, aug_error, aug_out>>
  /\ UNCHANGED notAugVars

\* one of the requests in flight fails for good
AugFailed ==
  /\ \E i \in 1..Len(aug_tasks) :
       /\ aug_tasks[i].state = "in_flight"
       /\ aug_tasks' = [aug_tasks EXCEPT ![i].state = "failed"]
       /\ aug_finished' = Append(aug_finished, i)
  /\ UNCHANGED <<aug_entry, aug_explainer, aug_parallelism, aug_chunks, aug_codes, aug_explanations, aug_pc, aug_error, aug_out>>
  /\ UNCHANGED notAugVars

\* the await of the batch returns: its results are appended (lines 50, 66-67)
AugGather ==
  /\ aug_pc = "running"
  /\ Len(aug_explanations) < Len(aug_codes)
  /\ \A i \in AugBatch(Len(aug_explanations), aug_parallelism, Len(aug_codes)) : aug_tasks[i].state = "done"
  /\ aug_explanations' = aug_explanations \o Gather(aug_tasks, AugBatch(Len(aug_explanations), aug_parallelism, Len(aug_codes)))
  /\ UNCHANGED <<aug_entry, aug_explainer, aug_parallelism, aug_chunks, aug_codes, aug_tasks, aug_finished, aug_pc, aug_error, aug_out>>
  /\ UNCHANGED notAugVars

\* the await of the batch raises the error of a failed request, which
\* neither method catches
AugRaise ==
  /\ aug_pc = "running"
  /\ \E i \in AugBatch(Len(aug_explanations), aug_parallelism, Len(aug_codes)) : aug_tasks[i].state = "failed"
  /\ aug_pc' = "raised"
  /\ aug_error' = "APIError"
  /\ UNCHANGED <<aug_entry, aug_explainer, aug_parallelism, aug_chunks, aug_codes, aug_tasks, aug_finished, aug_explanations, aug_out>>
  /\ UNCHANGED notAugVars

\* get_explanations returns explanations (lines 52, 69); the augmentation
\* then zips them with indices and returns the chunks (lines 151-165)
AugReturn ==
  /\ aug_pc = "running"
  /\ Len(aug_explanations) = Len(aug_codes)
  /\ aug_pc' = "returned"
  /\ aug_out' = IF aug_entry = "augment" THEN AssignDocs(aug_chunks, Indices(aug_chunks), aug_explanations) ELSE aug_explanations
  /\ UNCHANGED <<aug_entry, aug_explainer, aug_parallelism, aug_chunks, aug_codes, aug_tasks, aug_finished, aug_explanations, aug_error>>
  /\ UNCHANGED notAugVars

AugNext ==
  \/ AugmentCall
  \/ GetExplanationsCall
  \/ AugDispatch
  \/ AugAnswered
  \/ AugFailed
  \/ AugGather
  \/ AugRaise
  \/ AugReturn

SpecAugment == AugInit /\ [][AugNext]_vars

(***************************************************************************)
(* Claims.                                                                 *)
(***************************************************************************)
IndexRunning == op = "index"

\* the running call is a default (non-forced) index call that directly
\* follows an index call that returned normally
AfterGoodRun == op = "index" /\ ~force_reindex /\ prev.op = "index" /\ prev.outcome = "done"

\* position of a side effect in the order the ordering guarantee gives
EffectRank(e) == IF e = "delete" THEN 1 ELSE IF e = "upsert" THEN 2 ELSE IF e = "snapshot" THEN 3 ELSE 0

\* C1: in an index run the vector-DB deletes come first, then the upserts,
\* then the snapshot write; no delete or upsert follows the snapshot write.
C1_EffectOrder == IndexRunning => \A i, j \in 1..Len(effects) : i < j => EffectRank(effects[i]) <= EffectRank(effects[j])

\* C2: when a vector-DB delete or an embedding/upsert step of index raises,
\* the persisted snapshot is the one that existed when the call started.
C2_SnapshotKeptOnError == (IndexRunning /\ pc = "raised" /\ raisedAt \in {"delete_chunks", "upsert"}) => snapshot = snapshot0

\* the points a single index run yields from no collection and no snapshot:
\* every file is added, and the chunks of all of them are upserted
ColdPoints(tree) == Range(GetChunks(tree, SortedSeq(DOMAIN tree)))

\* C3: after an index run that failed between change detection and its last
\* upsert, the next run on the unchanged tree reports every unfinished file
\* as added or modified, and when it succeeds the collection holds the
\* chunks of exactly the current files.
C3_Reconverges ==
  (IndexRunning /\ detected /\ prev.op = "index" /\ prev.outcome = "raised" /\ prev.undone # {} /\ since = "none")
    => /\ prev.undone \subseteq (Range(results.added) \cup Range(results.modified))
       /\ pc = "done" => points = ColdPoints(fs)

\* files the committed snapshot records with their current content
UpToDate == {p \in (DOMAIN snapshot.files) \cap (DOMAIN fs) : snapshot.files[p].hash = FileHash(fs[p].content)}

\* C4: when index returns normally, no file error was absorbed, and every
\* file the snapshot records as up to date has its chunks in the collection.
C4_NoSilentDivergence ==
  (IndexRunning /\ pc = "done")
    => /\ skipped = {}
       /\ \A p \in UpToDate : Decodable(fs[p].content) => Range(Split(p, fs[p].content)) \subseteq points

\* C5: a default index call that directly follows a successful index call,
\* with no change of the tree between them, issues no vector-DB delete and
\* no vector-DB upsert.
C5_SecondRunIdle == (AfterGoodRun /\ since = "none") => ("delete" \notin Range(effects) /\ "upsert" \notin Range(effects))

\* the second call of C5 has returned, next to a collection the first filled
C5_Witness == AfterGoodRun /\ since = "none" /\ pc = "done" /\ detected /\ points # {} /\ Cardinality(DOMAIN fs) = MaxPath

\* C6: index(force_reindex=true) followed by index(force_reindex=false) on
\* the unchanged tree leaves the collection with the points of a cold index.
C6_ForceThenIndexIsCold == (AfterGoodRun /\ prev.force /\ since = "none" /\ pc = "done") => points = ColdPoints(fs)

\* C7: in a forced index run change detection starts from an empty
\* snapshot and reports every current file as added.
C7_ForceStartsEmpty == (IndexRunning /\ force_reindex /\ detected) => (old_files = EmptyMap /\ results = [added |-> SortedSeq(DOMAIN fs), modified |-> <<>>, removed |-> <<>>])

NoDuplicates(s) == \A i, j \in 1..Len(s) : i # j => s[i] # s[j]

\* C8: added, modified and removed are pairwise disjoint, so to_add and
\* to_remove name no path twice.
C8_Disjoint == cmp_done => (NoDuplicates(to_add(cmp_out)) /\ NoDuplicates(to_remove(cmp_out)) /\ Range(cmp_out.added) \cap Range(cmp_out.removed) = {})

\* C9: when the only change since a successful index call is one file moved
\* with its content unchanged, the next call detects no change and leaves
\* the number of points unchanged.
C9_PureRename ==
  (AfterGoodRun /\ since = "move" /\ detected)
    => /\ results = NoChanges
       /\ pc = "done" => Cardinality(points) = Cardinality(points0)

\* paths of old and current whose current hash is the snapshot hash
CmpSameHash == {p \in (DOMAIN cmp_old) \cap (DOMAIN cmp_cur) : FileHash(cmp_cur[p].content) = cmp_old[p].hash}

CmpReported == Range(cmp_out.added) \cup Range(cmp_out.modified) \cup Range(cmp_out.removed)

\* C10: a path in both the snapshot and the listing whose content hash is
\* the snapshot hash is in none of added, modified, removed, whether or not
\* its size, mtime or inode changed.
C10_SameHashUnreported == cmp_done => CmpSameHash \cap CmpReported = {}

\* both cases of C10 in one comparison: a path with unchanged metadata and
\* a path with changed metadata and the same hash
C10_Witness ==
  /\ cmp_done
  /\ \E p, q \in CmpSameHash : MetaEq(cmp_old[p], CurrentMeta(cmp_cur)[p]) /\ ~MetaEq(cmp_old[q], CurrentMeta(cmp_cur)[q])

\* paths of old and current whose current hash differs from the snapshot hash
CmpContentChanged == {p \in (DOMAIN cmp_old) \cap (DOMAIN cmp_cur) : FileHash(cmp_cur[p].content) # cmp_old[p].hash}

\* C11: every path in both the snapshot and the listing whose current content
\* differs from the recorded content is reported in modified, whatever its
\* size, mtime and inode are.
C11_NeverMissesModification == cmp_done => CmpContentChanged \subseteq Range(cmp_out.modified)

\* the arguments the validation must reject
InvalidArguments == query \in {"", " "} \/ top_k < 1 \/ top_k > 50 \/ threshold < 0 \/ threshold > 10 \/ \E n \in max_graph_hops : n < 1

\* C12: with an invalid argument search fails with a validation error and
\* no call to the vector DB, an embedder or the graph has been issued; with
\* valid arguments and a missing collection it fails with a not-indexed
\* error after the existence check only, with no embedding or query call.
C12_FailsBeforeCalls ==
  /\ InvalidArguments => (calls = <<>> /\ search_pc \in {"validate", "failed"} /\ (search_pc = "failed" => search_error = "ValueError"))
  /\ (~InvalidArguments /\ ~indexed) => (Range(calls) \subseteq {"collection_exists"} /\ search_pc \in {"validate", "collection_exists", "failed"} /\ (search_pc = "failed" /\ search_error # "Remote" => search_error = "NotIndexed"))

\* a call rejected for max_graph_hops = 0 alone, on an indexed codebase
C12_Witness == search_pc = "failed" /\ search_error = "ValueError" /\ query = "q" /\ top_k = 50 /\ threshold = 10 /\ max_graph_hops = {0} /\ indexed /\ calls = <<>>

\* C13: when max_graph_hops is None, or when the graph neighbourhood query
\* raises, search returns exactly the seed list of the hybrid query.
C13_SeedsOnlyWithoutGraph == (search_pc = "returned" /\ (max_graph_hops = {} \/ graph_outcome = "raised")) => final_results = seeds

\* the graph query raised after the hybrid query returned two seeds
C13_Witness == search_pc = "returned" /\ graph_outcome = "raised" /\ Len(seeds) = MaxSeeds /\ final_results = seeds

\* the cap of the merged list: graph_limit, 30 when it is not given
GraphCap == IF graph_limit = {} THEN 30 ELSE CHOOSE n \in graph_limit : TRUE

\* returned nodes whose id is not a seed id, in the order returned, score 0.0
NewNeighbours == LET idx == {i \in 1..Len(graph_nodes) : \A j \in 1..Len(seeds) : seeds[j].id # graph_nodes[i]} IN [k \in 1..Cardinality(idx) |-> [id |-> graph_nodes[CHOOSE i \in idx : Cardinality({j \in idx : j <= i}) = k], score |-> 0]]

\* C14: when graph expansion succeeds the result is the seeds in ranked
\* order followed by the neighbours not already present, in the order the
\* graph returned them with score 0.0, cut at graph_limit (default 30), and
\* no id occurs twice.
C14_MergedResult ==
  (search_pc = "returned" /\ graph_outcome = "returned")
    => /\ final_results = SubSeq(seeds \o NewNeighbours, 1, IF GraphCap < Len(seeds \o NewNeighbours) THEN GraphCap ELSE Len(seeds \o NewNeighbours))
       /\ \A i, j \in 1..Len(final_results) : i # j => final_results[i].id # final_results[j].id

\* C15: after delete returns, the collection does not exist and the
\* snapshot does not exist, also when deleting the graph raised.
C15_DeleteRemovesBoth == (op = "delete" /\ pc = "done") => (~collection_exists /\ ~snapshot.exists)

\* delete has returned after it dropped a collection, saw delete_graph
\* raise, and deleted a snapshot that existed
C15_Witness == op = "delete" /\ pc = "done" /\ snapshot0.exists /\ effects = <<"drop_collection", "drop_graph_failed", "delete_snapshot">>

\* the parsed file had a chunk longer than chunk_size as its first chunk
FirstChunkOversize == parse_mode = "parsed" /\ Len(ExtractChunks(code, parse_nodes)[1].content) > chunk_size

\* C16: every chunk split returns has end_line >= start_line >= 1 and a
\* non-empty content that equals its own trimmed form, and the first
\* sub-chunk of an oversize split is no longer than chunk_size.
C16_ChunkShape ==
  split_done
    => /\ \A k \in 1..Len(split_out) : split_out[k].end_line >= split_out[k].start_line /\ split_out[k].start_line >= 1
       /\ \A k \in 1..Len(split_out) : split_out[k].content # <<>> /\ split_out[k].content = Strip(split_out[k].content)
       /\ FirstChunkOversize => Len(split_out[1].content) <= chunk_size

\* C17: every edge build returns has its source_id and its target_id among
\* the ids of the chunk list, and no two returned edges have the same
\* (source_id, target_id, edge_type).
C17_EdgesKnownAndUnique ==
  build_done
    => /\ \A k \in 1..Len(build_edges) : \E i, j \in 1..Len(build_chunks) : build_chunks[i].id = build_edges[k].source_id /\ build_chunks[j].id = build_edges[k].target_id
       /\ \A k, n \in 1..Len(build_edges) : k # n => build_edges[k] # build_edges[n]

\* requests that have been started and have not completed, the ones that
\* sleep between two attempts included
Unfinished == {i \in 1..Len(requests) : requests[i].status \in {"in_flight", "sleeping"}}

\* C18: at every moment at most N = parallelism explanation requests are in
\* flight, and no request of a later batch has been started while a request
\* of an earlier batch has not completed, sleeping between retries included.
C18_BoundedParallelism ==
  /\ Cardinality(Unfinished) <= parallelism
  /\ \A i, j \in 1..Len(requests) : ((i - 1) \div parallelism < (j - 1) \div parallelism /\ requests[j].status # "pending") => Completed(requests[i])

\* the second batch runs, sent only after a request of the first batch that
\* had been rate-limited and had slept was answered
C18_Witness == parallelism = 2 /\ Len(requests) = 4 /\ requests[1].attempt >= 2 /\ requests[1].status = "done" /\ requests[3].status = "in_flight" /\ requests[4].status = "sleeping"

\* C19: a rate-limit error is retried for at most 3 attempts, in the
\* single-text embedding call, in each batch of the batched embedding call
\* and in the explainer: no request is attempted more than 3 times, a
\* rate-limit error reaches the caller only after the third attempt of the
\* request, and a call that has returned has answered every text.
C19_RateLimitRetried ==
  /\ retry_attempt <= StopAfterAttempt
  /\ (retry_pc = "raised" /\ retry_log # <<>> /\ retry_log[Len(retry_log)] = "rate_limit") => (retry_attempt = StopAfterAttempt /\ retry_error # {})
  /\ retry_pc = "returned" => (retry_done = retry_queries /\ retry_error = {})

\* C20: saving a snapshot is an atomic replace: at every point of a save,
\* the point where the process stopped in the middle included, a load of the
\* snapshot gives the complete previous file map or the complete new one.
C20_AtomicReplace == Load(disk) \in {save_old, save_new} /\ \A m \in loaded : m \in {save_old, save_new}

\* the patterns that apply to a path, as the specification orders them: the
\* global ones, then those of the .gitignore of each directory above it, the
\* root first
RECURSIVE PatternsAbove(_, _)
PatternsAbove(rel, depth) ==
  IF depth >= Len(rel) THEN <<>>
  ELSE (IF gitignore_files[SubSeq(rel, 1, depth)] = {} THEN <<>> ELSE ParseGitignoreFile(ValueOf(gitignore_files[SubSeq(rel, 1, depth)]), JoinSlash(SubSeq(rel, 1, depth)))) \o PatternsAbove(rel, depth + 1)

PatternSequence(rel) == GlobalPatterns(ignore_patterns) \o PatternsAbove(rel, 0)

IsDirEntry(rel) == [path |-> rel, is_dir |-> TRUE] \in TreeEntries

MatchingPatterns(rel) == {k \in 1..Len(PatternSequence(rel)) : Match(JoinSlash(rel), PatternSequence(rel)[k].pattern, IsDirEntry(rel))}

\* ignored exactly when some pattern matches and the last that does is not a negation
LastMatchDecision(rel) == MatchingPatterns(rel) # {} /\ ~PatternSequence(rel)[CHOOSE k \in MatchingPatterns(rel) : \A j \in MatchingPatterns(rel) : j <= k].negated

NoDotComponent(rel) == \A i \in 1..Len(rel) : Head(rel[i]) # "."

\* C21 as stated: for every path with no dot-prefixed component the ignore
\* decision is the complement of the negation flag of the last pattern that
\* matches it (global patterns, then ancestor .gitignore patterns from the
\* root down), and not ignored when none matches.
C21_LastMatchDecides == \A rel \in DOMAIN decided : NoDotComponent(rel) => decided[rel] = LastMatchDecision(rel)

\* C21, amended: the same, for the paths with no dot-prefixed component that
\* are directories or files with a supported extension (a file with another
\* extension can be ignored whatever the patterns say).
C21_LastMatchDecidesSupported == \A rel \in DOMAIN decided : (NoDotComponent(rel) /\ (IsDirEntry(rel) \/ PathSuffix(rel[Len(rel)]) \in SupportedExtensions)) => decided[rel] = LastMatchDecision(rel)

\* d/m.py is kept: *.py of the root .gitignore matches it, and !m.py of the
\* .gitignore of d, which comes later, matches it too
C21_Witness == <<<<"d">>, <<"m", ".", "p", "y">>>> \in DOMAIN decided /\ decided[<<<<"d">>, <<"m", ".", "p", "y">>>>] = FALSE /\ gitignore_files[<<>>] = {<<<<"*", ".", "p", "y">>>>} /\ gitignore_files[<<<<"d">>>>] = {<<<<"!", "m", ".", "p", "y">>>>} /\ ignore_patterns = <<<<"m", ".", "p", "y">>>>

\* C22: the listing never holds a path with a component that begins with a
\* dot, nor a file whose extension is not a supported one.
C22_ListingFiltered == \A rel \in result : NoDotComponent(rel) /\ PathSuffix(rel[Len(rel)]) \in SupportedExtensions

IsVisible(ch) == ~IsSpace(ch)

\* the visible characters of the contents of a chunk list, in order
RECURSIVE VisibleOf(_)
VisibleOf(chunks) == IF chunks = <<>> THEN <<>> ELSE SelectSeq(Head(chunks).content, IsVisible) \o VisibleOf(Tail(chunks))

\* no line of the file, its newline included, is longer than chunk_size
NoLineExceeds == \A i \in 0..(Len(SplitNewline(code)) - 1) : Len(LineWithNewline(SplitNewline(code), i)) <= chunk_size

\* C23: for a file whose extension is unsupported, or whose parser cannot be
\* loaded or fails, split returns line-bounded text chunks that together
\* cover the non-blank text of the file, each no longer than chunk_size
\* whenever no single line exceeds it.
C23_FallbackCovers ==
  (split_done /\ parse_mode \in {"unsupported", "no_parser"})
    => /\ VisibleOf(split_out) = SelectSeq(code, IsVisible)
       /\ NoLineExceeds => \A k \in 1..Len(split_out) : Len(split_out[k].content) <= chunk_size

\* the running index call was not forced, found no collection and created
\* one, while a snapshot of the codebase was there when it started
CreatedNextToSnapshot == IndexRunning /\ ~force_reindex /\ snapshot0.exists /\ "create_collection" \in Range(effects)

\* C24: when index creates a new, empty collection because none existed
\* (force_reindex false) while a snapshot is still present, the run upserts
\* the chunks of every current file: it never returns normally with an empty
\* collection next to a snapshot that lists files as indexed.
C24_CreatedCollectionFilled ==
  (CreatedNextToSnapshot /\ pc = "done")
    => \A p \in DOMAIN fs : Decodable(fs[p].content) => Range(Split(p, fs[p].content)) \subseteq points

\* new paths that rename detection dropped from added: in the listing, not
\* in the snapshot, and reported neither as added nor as modified
CmpDroppedNew == ((DOMAIN cmp_cur) \ (DOMAIN cmp_old)) \ (Range(cmp_out.added) \cup Range(cmp_out.modified))

\* old paths that rename detection dropped from removed
CmpDroppedOld == ((DOMAIN cmp_old) \ (DOMAIN cmp_cur)) \ Range(cmp_out.removed)

\* C25: rename detection cancels paths in one-to-one pairs: every new path
\* dropped from added goes with a distinct old path, of the same content,
\* that was in removed and is dropped with it, and no old path is paired
\* with two new paths.
C25_OneToOnePairs ==
  cmp_done
    => \E pairing \in [CmpDroppedNew -> CmpDroppedOld] :
         /\ \A n, k \in CmpDroppedNew : n # k => pairing[n] # pairing[k]
         /\ \A n \in CmpDroppedNew : FileHash(cmp_cur[n].content) = cmp_old[pairing[n]].hash

\* pairs (new_p, old_p): new_p is listed and was not in the snapshot, old_p
\* was in the snapshot and is gone, both have the same inode, which no other
\* path of the snapshot or of the listing has, and their contents differ
CmpSameInodeEdited ==
  {pr \in ((DOMAIN cmp_cur) \ (DOMAIN cmp_old)) \X ((DOMAIN cmp_old) \ (DOMAIN cmp_cur)) :
     /\ cmp_cur[pr[1]].inode # NoInode
     /\ cmp_cur[pr[1]].inode = cmp_old[pr[2]].inode
     /\ \A q \in DOMAIN cmp_cur : q # pr[1] => cmp_cur[q].inode # cmp_cur[pr[1]].inode
     /\ \A q \in DOMAIN cmp_old : q # pr[2] => cmp_old[q].inode # cmp_old[pr[2]].inode
     /\ FileHash(cmp_cur[pr[1]].content) # cmp_old[pr[2]].hash}

\* C26: when a new path new_p has the inode of a snapshot path old_p and
\* another content, new_p is reported in modified and old_p stays in
\* removed, so that the index run deletes the points of both paths (they
\* are in to_remove) and upserts the chunks of new_p (it is in to_add).
C26_SameInodeOtherContent ==
  cmp_done
    => \A pr \in CmpSameInodeEdited :
         /\ pr[1] \in Range(cmp_out.modified)
         /\ pr[2] \in Range(cmp_out.removed)
         /\ {pr[1], pr[2]} \subseteq Range(to_remove(cmp_out))
         /\ pr[1] \in Range(to_add(cmp_out))

\* the chunks the running index call got by splitting the files of to_add
RunChunks == GetChunks(fs, to_add(results))

\* C27: the chunks of the files of to_add are streamed in batches of at most
\* BatchSize (128 in the source): every upsert call carries between 1 and
\* BatchSize points, the calls made so far carry the first chunks of the
\* list in order, one point per chunk, and when the run has returned
\* normally their concatenation is the whole chunk list.
C27_StreamedInBatches ==
  (IndexRunning /\ detected /\ pc \in {"upsert", "done", "raised"})
    => /\ \A i \in 1..Len(upserted) : Len(upserted[i]) >= 1 /\ Len(upserted[i]) <= BatchSize
       /\ Len(Flatten(upserted)) <= Len(RunChunks)
       /\ Flatten(upserted) = SubSeq(RunChunks, 1, Len(Flatten(upserted)))
       /\ (pc = "done" /\ num_changes(results) > 0) => Flatten(upserted) = RunChunks

\* a run has returned after a full batch and a last batch of one point
C27_Witness == IndexRunning /\ detected /\ pc = "done" /\ Len(upserted) = 2 /\ Len(upserted[1]) = BatchSize /\ Len(upserted[2]) = 1

\* C28: graph expansion never removes a seed: whatever graph_limit and the
\* answer of the graph are, the seeds of the hybrid query are a prefix of
\* the list search returns.
C28_SeedsArePrefix ==
  search_pc = "returned"
    => /\ Len(final_results) >= Len(seeds)
       /\ SubSeq(final_results, 1, Len(seeds)) = seeds

\* the sub-chunks of the oversize first chunk before the overlap step
PreOverlap == SplitLargeChunk(ExtractChunks(code, parse_nodes)[1], chunk_size)

\* the last n characters of t (all of t when it is shorter)
LastChars(t, n) == LET m == IF n < Len(t) THEN n ELSE Len(t) IN [i \in 1..m |-> t[Len(t) - m + i]]

\* the overlap text sub-chunk k gets from sub-chunk k - 1
OverlapText(k) == LastChars(PreOverlap[k - 1].content, chunk_overlap)

\* C29: in oversize refinement every sub-chunk after the first has as
\* content the last chunk_overlap characters of the previous sub-chunk's
\* pre-overlap content, a newline, and its own content; its start_line is
\* its own minus the number of lines of that overlap text, floored at 1, its
\* end_line is unchanged, and the first sub-chunk is unchanged; with
\* chunk_overlap = 0 or a single sub-chunk the step changes nothing.
C29_OverlapStep ==
  (split_done /\ FirstChunkOversize)
    => /\ Len(split_out) = Len(PreOverlap)
       /\ split_out[1] = PreOverlap[1]
       /\ (chunk_overlap = 0 \/ Len(PreOverlap) = 1) => split_out = PreOverlap
       /\ chunk_overlap > 0 => \A k \in 2..Len(split_out) :
            /\ split_out[k].content = OverlapText(k) \o <<"\n">> \o PreOverlap[k].content
            /\ split_out[k].start_line = (IF PreOverlap[k].start_line - (1 + Newlines(OverlapText(k))) < 1 THEN 1 ELSE PreOverlap[k].start_line - (1 + Newlines(OverlapText(k))))
            /\ split_out[k].end_line = PreOverlap[k].end_line

\* two sub-chunks, the second with an overlap text of two lines in front:
\* the end of line 1 and line 2 of the first sub-chunk
C29_Witness == split_done /\ FirstChunkOversize /\ chunk_overlap = 2 /\ Len(split_out) = 2 /\ PreOverlap[1].content = <<"x", "\n", "x">> /\ split_out[2].content = <<"\n", "x", "\n", "x">> /\ PreOverlap[2].start_line = 3 /\ split_out[2].start_line = 1 /\ split_out[2].end_line = 3

\* the request that carries the content of chunk i: its rank among the
\* chunks that need an explanation
RequestOf(i) == Cardinality({j \in 1..i : NeedsExplanation(aug_chunks[j])})

NoRequestFailed == \A i \in 1..Len(aug_tasks) : aug_tasks[i].state # "failed"

====
